---------------------------- MODULE Spec2Model ----------------------------
(***************************************************************************)
(* Model of the version-it library: the modifier chain (modifiers.ts),     *)
(* SemVer (semver.ts) and CalVer (calver.ts, Modifier-chain variant).      *)
(*                                                                         *)
(* Text is a sequence of one-character strings, so that parsing and        *)
(* rendering are computed character by character.  An optional value       *)
(* (undefined in the source) is the empty tuple, a defined value v is <<v>>*)
(***************************************************************************)
EXTENDS Integers, Sequences, FiniteSets, TLC

VARIABLES ver, now, text, last, steps

vars == <<ver, now, text, last, steps>>

(***************************************************************************)
(* Bounds of the model.                                                    *)
(***************************************************************************)
MaxCore == 1
MaxChain == 1
MaxSteps == 2

(***************************************************************************)
(* JavaScript values.                                                      *)
(***************************************************************************)
Undefined == <<>>
Some(v) == <<v>>
IsDefined(o) == o # <<>>
Get(o) == o[1]

DigitChars == <<"0", "1", "2", "3", "4", "5", "6", "7", "8", "9">>

IsDigit(c) == \E i \in 1..10 : DigitChars[i] = c

DigitVal(c) == (CHOOSE i \in 1..10 : DigitChars[i] = c) - 1

IsLetter(c) ==
  c \in {"a", "b", "c", "d", "e", "f", "g", "h", "i", "j", "k", "l", "m",
         "n", "o", "p", "q", "r", "s", "t", "u", "v", "w", "x", "y", "z"}

IsAllDigits(s) == \A i \in 1..Len(s) : IsDigit(s[i])

RECURSIVE ParseDigits(_, _)
ParseDigits(s, acc) ==
  IF s = <<>> THEN acc ELSE ParseDigits(Tail(s), 10 * acc + DigitVal(Head(s)))

\* parseInt of a text that the regular expression has matched as \d+
ParseInt(s) == ParseDigits(s, 0)

RECURSIVE NatToString(_)
NatToString(n) ==
  IF n < 10 THEN <<DigitChars[n + 1]>>
  ELSE NatToString(n \div 10) \o <<DigitChars[(n % 10) + 1]>>

\* Number.prototype.toString and template-literal conversion of an integer
NumberToString(n) == IF n < 0 THEN <<"-">> \o NatToString(-n) ELSE NatToString(n)

RECURSIVE SplitFrom(_, _, _, _)
SplitFrom(s, sep, cur, acc) ==
  IF s = <<>> THEN Append(acc, cur)
  ELSE IF Head(s) = sep THEN SplitFrom(Tail(s), sep, <<>>, Append(acc, cur))
  ELSE SplitFrom(Tail(s), sep, Append(cur, Head(s)), acc)

\* String.prototype.split(sep): "" splits into one empty element
Split(s, sep) == SplitFrom(s, sep, <<>>, <<>>)

RECURSIVE Join(_, _)
Join(parts, sep) ==
  IF parts = <<>> THEN <<>>
  ELSE IF Len(parts) = 1 THEN parts[1]
  ELSE parts[1] \o sep \o Join(Tail(parts), sep)

StartsWith(s, p) == Len(p) <= Len(s) /\ SubSeq(s, 1, Len(p)) = p

\* String.prototype.substring(n) for 0 <= n
Substring(s, n) == SubSeq(s, n + 1, Len(s))

(***************************************************************************)
(* Number(element) as used by getModifiers: the StringNumericLiteral       *)
(* grammar restricted to the characters of the model's alphabets (digits,  *)
(* '-', '_', and letters that form no numeric literal): the empty string   *)
(* is 0, an optionally signed run of decimal digits is its value ("-0" is  *)
(* negative zero, which equals 0 and prints as "0"), anything else is NaN. *)
(***************************************************************************)
NumberIsNaN(e) ==
  IF e = <<>> THEN FALSE
  ELSE IF Head(e) = "-" THEN Len(e) = 1 \/ ~IsAllDigits(Tail(e))
  ELSE ~IsAllDigits(e)

NumberOf(e) ==
  IF e = <<>> THEN 0
  ELSE IF Head(e) = "-" THEN 0 - ParseInt(Tail(e))
  ELSE ParseInt(e)

\* Intl collation order of the characters the model uses (ICU root order:
\* punctuation, then digits, then letters, a lower-case letter before its
\* upper-case one and both before the next letter); localeCompare yields
\* -1, 0 or 1
CollationOrder ==
  <<"_", "-", "0", "1", "2", "3", "4", "5", "6", "7", "8", "9",
    "a", "A", "b", "B", "c", "d", "e", "f", "g", "h", "i", "j", "k", "l", "m",
    "n", "o", "p", "q", "r", "s", "t", "u", "v", "w", "x", "y", "z">>

CharRank(c) == CHOOSE i \in 1..Len(CollationOrder) : CollationOrder[i] = c

RECURSIVE LocaleCompare(_, _)
LocaleCompare(x, y) ==
  IF x = <<>> THEN (IF y = <<>> THEN 0 ELSE -1)
  ELSE IF y = <<>> THEN 1
  ELSE IF CharRank(Head(x)) < CharRank(Head(y)) THEN -1
  ELSE IF CharRank(Head(x)) > CharRank(Head(y)) THEN 1
  ELSE LocaleCompare(Tail(x), Tail(y))

(***************************************************************************)
(* modifiers.ts                                                            *)
(***************************************************************************)
Modifier(id, v, l) == [identifier |-> id, value |-> v, length |-> l]

RECURSIVE GetModifiersLoop(_, _, _)
GetModifiersLoop(elements, modifiers, nextModifier) ==
  IF elements = <<>>
  THEN IF IsDefined(nextModifier) THEN Append(modifiers, Get(nextModifier))
       ELSE modifiers
  ELSE LET element == Head(elements)
           rest == Tail(elements)
       IN IF NumberIsNaN(element)
          THEN GetModifiersLoop(
                 rest,
                 IF IsDefined(nextModifier)
                 THEN Append(modifiers, Get(nextModifier)) ELSE modifiers,
                 Some(Modifier(Some(element), 0, 0)))
          ELSE IF ~IsDefined(nextModifier)
          THEN GetModifiersLoop(
                 rest,
                 Append(modifiers,
                        Modifier(Undefined, NumberOf(element), Len(element))),
                 Undefined)
          ELSE GetModifiersLoop(
                 rest,
                 Append(modifiers,
                        Modifier(Get(nextModifier).identifier,
                                 NumberOf(element), Len(element))),
                 Undefined)

\* value is an optional text; undefined and "" both give the empty chain
getModifiers(value) ==
  IF IsDefined(value) /\ Get(value) # <<>>
  THEN GetModifiersLoop(Split(Get(value), "."), <<>>, Undefined)
  ELSE <<>>

FindIndex(modifiers, identifier) ==
  LET hits == {i \in 1..Len(modifiers) :
                 modifiers[i].identifier = Some(identifier)}
  IN IF hits = {} THEN 0 ELSE CHOOSE i \in hits : \A j \in hits : i <= j

\* incrementModifier where the element found keeps its length
incrementModifierKeepsLength(modifiers, identifier) ==
  LET element == FindIndex(modifiers, identifier)
  IN IF element = 0
     THEN Append(modifiers, Modifier(Some(identifier), 1, 1))
     ELSE [modifiers EXCEPT ![element].value = @ + 1]

incrementModifier(modifiers, identifier) ==
  LET element == FindIndex(modifiers, identifier)
  IN IF element = 0
     THEN Append(modifiers, Modifier(Some(identifier), 1, 1))
     ELSE LET nextVersion == modifiers[element].value + 1
          IN [modifiers EXCEPT
                ![element] = Modifier(modifiers[element].identifier,
                                      nextVersion,
                                      Len(NumberToString(nextVersion)))]

IdentifierOrEmpty(m) == IF IsDefined(m.identifier) THEN Get(m.identifier) ELSE <<>>

RECURSIVE CompareModifiersFrom(_, _, _)
CompareModifiersFrom(a, b, idx) ==
  IF idx > Len(a) THEN 0
  ELSE LET identifierComp ==
             LocaleCompare(IdentifierOrEmpty(a[idx]), IdentifierOrEmpty(b[idx]))
       IN IF identifierComp # 0 THEN identifierComp
          ELSE IF a[idx].value = b[idx].value
          THEN CompareModifiersFrom(a, b, idx + 1)
          ELSE IF a[idx].value > b[idx].value THEN 1 ELSE -1

\* compareModifiers where the longer chain is the greater one
compareModifiersLongerGreater(a, b) ==
  IF Len(a) < Len(b) THEN -1
  ELSE IF Len(a) > Len(b) THEN 1
  ELSE CompareModifiersFrom(a, b, 1)

compareModifiers(a, b) ==
  IF Len(a) < Len(b) THEN 1
  ELSE IF Len(a) > Len(b) THEN -1
  ELSE CompareModifiersFrom(a, b, 1)

\* the rendering of one element that writes the value whatever the length
ModifierToStringWithValue(modifier) ==
  IF IsDefined(modifier.identifier) /\ Get(modifier.identifier) # <<>>
  THEN Get(modifier.identifier) \o <<".">> \o NumberToString(modifier.value)
  ELSE NumberToString(modifier.value)

ModifierToString(modifier) ==
  IF IsDefined(modifier.identifier) /\ Get(modifier.identifier) # <<>>
  THEN Get(modifier.identifier)
         \o (IF modifier.length > 0
             THEN <<".">> \o NumberToString(modifier.value) ELSE <<>>)
  ELSE NumberToString(modifier.value)

modifiersToString(modifiers) ==
  IF Len(modifiers) > 0
  THEN <<"-">> \o Join([i \in 1..Len(modifiers) |-> ModifierToString(modifiers[i])],
                        <<".">>)
  ELSE <<>>

(***************************************************************************)
(* semver.ts                                                               *)
(***************************************************************************)
Field(version, name, default) ==
  IF name \in DOMAIN version THEN version[name] ELSE default

\* constructor(version?: Partial<ISemVer>)
SemVer(version) ==
  [kind |-> "SemVer",
   prefix |-> Field(version, "prefix", Undefined),
   major |-> Field(version, "major", 0),
   minor |-> Field(version, "minor", 0),
   patch |-> Field(version, "patch", 0),
   preReleases |-> Field(version, "preReleases", <<>>),
   build |-> Field(version, "build", Undefined)]

IsIdentifierChar(c) == IsDigit(c) \/ IsLetter(c) \/ c = "-"

\* 0|[1-9]\d*
IsNumericIdentifier(s) ==
  s # <<>> /\ IsAllDigits(s) /\ (Head(s) = "0" => Len(s) = 1)

\* 0|[1-9]\d*|\d*[a-zA-Z-][0-9a-zA-Z-]*
IsPreReleaseIdentifier(s) ==
  /\ s # <<>>
  /\ \A i \in 1..Len(s) : IsIdentifierChar(s[i])
  /\ (IsAllDigits(s) => IsNumericIdentifier(s))

\* [0-9a-zA-Z-]+
IsBuildIdentifier(s) ==
  s # <<>> /\ \A i \in 1..Len(s) : IsIdentifierChar(s[i])

FirstIndexOf(s, chars) ==
  LET hits == {i \in 1..Len(s) : s[i] \in chars}
  IN IF hits = {} THEN Len(s) + 1 ELSE CHOOSE i \in hits : \A j \in hits : i <= j

(***************************************************************************)
(* SEMVER_REGEX.exec(version)?.groups: the core runs to the first '-' or   *)
(* '+'; a '-' opens the pre-release, which runs to the first '+'; a '+'    *)
(* opens the build metadata, which runs to the end.  No group can hold the *)
(* character that ends it, so the anchored expression has one way to match.*)
(***************************************************************************)
SemVerRegexExec(version) ==
  LET coreEnd == FirstIndexOf(version, {"-", "+"})
      core == Split(SubSeq(version, 1, coreEnd - 1), ".")
      hasPre == coreEnd <= Len(version) /\ version[coreEnd] = "-"
      afterCore == SubSeq(version, coreEnd + 1, Len(version))
      preEnd == FirstIndexOf(afterCore, {"+"})
      pre == SubSeq(afterCore, 1, preEnd - 1)
      hasBuild == IF hasPre THEN preEnd <= Len(afterCore)
                  ELSE coreEnd <= Len(version)
      build == IF hasPre THEN SubSeq(afterCore, preEnd + 1, Len(afterCore))
               ELSE afterCore
      preParts == Split(pre, ".")
      buildParts == Split(build, ".")
  IN IF /\ Len(core) = 3
        /\ \A i \in 1..3 : IsNumericIdentifier(core[i])
        /\ (hasPre => \A i \in 1..Len(preParts) : IsPreReleaseIdentifier(preParts[i]))
        /\ (hasBuild => \A i \in 1..Len(buildParts) : IsBuildIdentifier(buildParts[i]))
     THEN Some([major |-> core[1], minor |-> core[2], patch |-> core[3],
                prerelease |-> IF hasPre THEN Some(pre) ELSE Undefined,
                buildmetadata |-> IF hasBuild THEN Some(build) ELSE Undefined])
     ELSE Undefined

\* fromString that strips the length of the prefix without looking for it
SemVer_fromStringAnyPrefix(version, prefix) ==
  LET stripped == IF IsDefined(prefix)
                  THEN Substring(version, Len(Get(prefix))) ELSE version
      groups == SemVerRegexExec(stripped)
  IN IF ~IsDefined(groups) THEN Undefined
     ELSE Some(SemVer([prefix |-> prefix,
                       major |-> ParseInt(Get(groups).major),
                       minor |-> ParseInt(Get(groups).minor),
                       patch |-> ParseInt(Get(groups).patch),
                       preReleases |-> getModifiers(Get(groups).prerelease),
                       build |-> Get(groups).buildmetadata]))

\* the result is null (the empty tuple) or <<the SemVer>>
SemVer_fromString(version, prefix) ==
  IF IsDefined(prefix) /\ ~StartsWith(version, Get(prefix)) THEN Undefined
  ELSE LET stripped == IF IsDefined(prefix)
                       THEN Substring(version, Len(Get(prefix))) ELSE version
           groups == SemVerRegexExec(stripped)
       IN IF ~IsDefined(groups) THEN Undefined
          ELSE Some(SemVer([prefix |-> prefix,
                            major |-> ParseInt(Get(groups).major),
                            minor |-> ParseInt(Get(groups).minor),
                            patch |-> ParseInt(Get(groups).patch),
                            preReleases |-> getModifiers(Get(groups).prerelease),
                            build |-> Get(groups).buildmetadata]))

\* increment where MAJOR and MINOR keep the lesser cores, the pre-releases
\* and the build of the receiver
SemVer_incrementKeepsRest(this, type, modifier) ==
  CASE type = "PRERELEASE" ->
         SemVer([prefix |-> this.prefix, major |-> this.major,
                 minor |-> this.minor, patch |-> this.patch,
                 preReleases |->
                   incrementModifier(this.preReleases,
                                     IF IsDefined(modifier) THEN Get(modifier)
                                     ELSE <<"r", "c">>),
                 build |-> Undefined])
    [] type = "MAJOR" -> [this EXCEPT !.major = @ + 1]
    [] type = "MINOR" -> [this EXCEPT !.minor = @ + 1]
    [] type = "PATCH" -> [this EXCEPT !.patch = @ + 1]

\* increment where PRERELEASE defaults to "build" and keeps the build
SemVer_incrementDefaultsToBuild(this, type, modifier) ==
  CASE type = "PRERELEASE" ->
         SemVer([prefix |-> this.prefix, major |-> this.major,
                 minor |-> this.minor, patch |-> this.patch,
                 preReleases |->
                   incrementModifier(this.preReleases,
                                     IF IsDefined(modifier) THEN Get(modifier)
                                     ELSE <<"b", "u", "i", "l", "d">>),
                 build |-> this.build])
    [] type = "MAJOR" ->
         SemVer([prefix |-> this.prefix, major |-> this.major + 1])
    [] type = "MINOR" ->
         SemVer([prefix |-> this.prefix, major |-> this.major,
                 minor |-> this.minor + 1])
    [] type = "PATCH" ->
         SemVer([prefix |-> this.prefix, major |-> this.major,
                 minor |-> this.minor, patch |-> this.patch + 1])

\* increment where MAJOR, MINOR and PATCH build the result without a prefix
SemVer_incrementDropsPrefix(this, type, modifier) ==
  CASE type = "PRERELEASE" ->
         SemVer([prefix |-> this.prefix, major |-> this.major,
                 minor |-> this.minor, patch |-> this.patch,
                 preReleases |->
                   incrementModifier(this.preReleases,
                                     IF IsDefined(modifier) THEN Get(modifier)
                                     ELSE <<"r", "c">>),
                 build |-> Undefined])
    [] type = "MAJOR" -> SemVer([major |-> this.major + 1])
    [] type = "MINOR" ->
         SemVer([major |-> this.major, minor |-> this.minor + 1])
    [] type = "PATCH" ->
         SemVer([major |-> this.major, minor |-> this.minor,
                 patch |-> this.patch + 1])

SemVer_increment(this, type, modifier) ==
  CASE type = "PRERELEASE" ->
         SemVer([prefix |-> this.prefix, major |-> this.major,
                 minor |-> this.minor, patch |-> this.patch,
                 preReleases |->
                   incrementModifier(this.preReleases,
                                     IF IsDefined(modifier) THEN Get(modifier)
                                     ELSE <<"r", "c">>),
                 build |-> Undefined])
    [] type = "MAJOR" ->
         SemVer([prefix |-> this.prefix, major |-> this.major + 1])
    [] type = "MINOR" ->
         SemVer([prefix |-> this.prefix, major |-> this.major,
                 minor |-> this.minor + 1])
    [] type = "PATCH" ->
         SemVer([prefix |-> this.prefix, major |-> this.major,
                 minor |-> this.minor, patch |-> this.patch + 1])

\* compareTo where the build metadata breaks a tie
SemVer_compareToBuildBreaksTies(this, other) ==
  IF this.major # other.major THEN (IF this.major > other.major THEN 1 ELSE -1)
  ELSE IF this.minor # other.minor THEN (IF this.minor > other.minor THEN 1 ELSE -1)
  ELSE IF this.patch # other.patch THEN (IF this.patch > other.patch THEN 1 ELSE -1)
  ELSE IF compareModifiers(this.preReleases, other.preReleases) # 0
  THEN compareModifiers(this.preReleases, other.preReleases)
  ELSE LocaleCompare(IF IsDefined(this.build) THEN Get(this.build) ELSE <<>>,
                     IF IsDefined(other.build) THEN Get(other.build) ELSE <<>>)

SemVer_compareTo(this, other) ==
  IF this.major # other.major THEN (IF this.major > other.major THEN 1 ELSE -1)
  ELSE IF this.minor # other.minor THEN (IF this.minor > other.minor THEN 1 ELSE -1)
  ELSE IF this.patch # other.patch THEN (IF this.patch > other.patch THEN 1 ELSE -1)
  ELSE compareModifiers(this.preReleases, other.preReleases)

SemVer_isEqualTo(this, other) == SemVer_compareTo(this, other) = 0

SemVer_isGreaterThan(this, other) == SemVer_compareTo(this, other) = 1

SemVer_isLessThan(this, other) == SemVer_compareTo(this, other) = -1

SemVer_toString(this) ==
  LET build == IF IsDefined(this.build) /\ Get(this.build) # <<>>
               THEN <<"+">> \o Get(this.build) ELSE <<>>
      prereleases == modifiersToString(this.preReleases)
  IN (IF IsDefined(this.prefix) THEN Get(this.prefix) ELSE <<>>)
       \o NumberToString(this.major) \o <<".">> \o NumberToString(this.minor)
       \o <<".">> \o NumberToString(this.patch) \o prereleases \o build

(***************************************************************************)
(* utils.ts and the clock.  The clock is the environment's: a record of    *)
(* what new Date() yields (getFullYear, getMonth, getDate) and of the ISO  *)
(* week getISO8601WeekNumber computes from that date.                      *)
(***************************************************************************)
compareNumbers(a, b) == IF a > b THEN 1 ELSE IF a < b THEN -1 ELSE 0

getISO8601WeekNumber(clock) == clock.week

(***************************************************************************)
(* calver.ts (Modifier-chain variant)                                      *)
(***************************************************************************)
Throw(message) == [throws |-> TRUE, message |-> message]
Return(value) == [throws |-> FALSE, value |-> value]

\* a JavaScript number | undefined for the micro core; parseInt(undefined) is NaN
MicroUndefined == [tag |-> "undefined", n |-> 0]
MicroNaN == [tag |-> "NaN", n |-> 0]
MicroNumber(n) == [tag |-> "number", n |-> n]

YYYY == <<"Y", "Y", "Y", "Y">>
YY == <<"Y", "Y">>
ZeroY == <<"0", "Y">>
MM == <<"M", "M">>
ZeroM == <<"0", "M">>
WW == <<"W", "W">>
ZeroW == <<"0", "W">>
DD == <<"D", "D">>
ZeroD == <<"0", "D">>
MAJOR == <<"M", "A", "J", "O", "R">>
MINOR == <<"M", "I", "N", "O", "R">>
MICRO == <<"M", "I", "C", "R", "O">>

\* String.prototype.includes for a one-character needle
Includes(s, c) == \E i \in 1..Len(s) : s[i] = c

IsVersionToken(token) == token \in {MAJOR, MINOR, MICRO}

IsUpperCase(c) ==
  c \in {"A", "B", "C", "D", "E", "F", "G", "H", "I", "J", "K", "L", "M",
         "N", "O", "P", "Q", "R", "S", "T", "U", "V", "W", "X", "Y", "Z"}

\* [A-Z0]+
IsFormatElement(s) ==
  s # <<>> /\ \A i \in 1..Len(s) : s[i] = "0" \/ IsUpperCase(s[i])

\* a capture group for whatever the element is
GroupWidthOfAnything(element) == Some([min |-> 1, max |-> 0])

\* the digit count {min, max} of the capture group pushed for a format element
\* (max 0: unbounded, \d+); undefined for an unknown element
GroupWidth(element) ==
  IF IsVersionToken(element) THEN Some([min |-> 1, max |-> 0])
  ELSE IF element = YYYY THEN Some([min |-> 4, max |-> 4])
  ELSE IF element = YY THEN Some([min |-> 1, max |-> 3])
  ELSE IF element = ZeroY THEN Some([min |-> 3, max |-> 3])
  ELSE IF element \in {ZeroM, ZeroW, ZeroD} THEN Some([min |-> 2, max |-> 2])
  ELSE IF element \in {MM, WW, DD} THEN Some([min |-> 1, max |-> 2])
  ELSE Undefined

\* formatFromString: Throw(...) or Return(the IFormat); regex is kept as the
\* sequence of group widths the expression is built from.  The loop throws
\* at the first element that repeats an earlier one or is unknown.
formatFromString(format) ==
  LET elements == Split(format, ".")
      used(i) == \E j \in 1..(i - 1) : elements[j] = elements[i]
      bad == {i \in 1..Len(elements) : used(i) \/ ~IsDefined(GroupWidth(elements[i]))}
  IN IF ~(Len(elements) \in {2, 3} /\ \A i \in 1..Len(elements) : IsFormatElement(elements[i]))
     THEN Throw("Invalid CalVer format")
     ELSE IF bad # {}
     THEN IF used(CHOOSE i \in bad : \A j \in bad : i <= j)
          THEN Throw("Duplicate CalVer format element")
          ELSE Throw("Unknown CalVer format element")
     ELSE Return([regex |-> [i \in 1..Len(elements) |-> Get(GroupWidth(elements[i]))],
                  major |-> elements[1],
                  minor |-> elements[2],
                  micro |-> IF Len(elements) = 3 THEN Some(elements[3]) ELSE Undefined])

\* constructor(format: IFormat, version?: Partial<ICalVer>, prefix?)
CalVer(format, version, prefix) ==
  [kind |-> "CalVer",
   format |-> format,
   prefix |-> IF IsDefined(Field(version, "prefix", Undefined))
              THEN version.prefix ELSE prefix,
   major |-> Field(version, "major", 0),
   minor |-> Field(version, "minor", 0),
   micro |-> IF Field(version, "micro", MicroUndefined).tag # "undefined"
             THEN version.micro
             ELSE IF IsDefined(format.micro) THEN MicroNumber(0) ELSE MicroUndefined,
   modifiers |-> Field(version, "modifiers", <<>>)]

\* [\w._]
IsModifierChar(c) == IsDigit(c) \/ IsLetter(c) \/ c \in {"_", "."}

(***************************************************************************)
(* format.regex.exec(version)?.groups.  The expression is                  *)
(* ^(\d{..}).(\d{..})(.(\d{..}))?(-([\w._]+))?$ with the dots between the   *)
(* groups unescaped (versions.join(".")), so each matches any character.   *)
(* The groups are greedy and the engine backtracks: the match it reports   *)
(* is the one with the longest major, then the longest minor, then the     *)
(* longest micro group.                                                    *)
(***************************************************************************)
WidthAllows(w, n) == n >= w.min /\ (w.max = 0 \/ n <= w.max)

IsModifierSuffix(s) ==
  s = <<>> \/ (Len(s) >= 2 /\ Head(s) = "-"
                /\ \A i \in 2..Len(s) : IsModifierChar(s[i]))

RegexMatches(regex, version) ==
  LET n == Len(version)
      digitsAt(from, len) == \A i \in from..(from + len - 1) : IsDigit(version[i])
  IN IF Len(regex) = 2
     THEN {m \in [l1 : 1..n, l2 : 1..n, l3 : {0}] :
             /\ m.l1 + 1 + m.l2 <= n
             /\ WidthAllows(regex[1], m.l1) /\ digitsAt(1, m.l1)
             /\ WidthAllows(regex[2], m.l2) /\ digitsAt(m.l1 + 2, m.l2)
             /\ IsModifierSuffix(Substring(version, m.l1 + 1 + m.l2))}
     ELSE {m \in [l1 : 1..n, l2 : 1..n, l3 : 1..n] :
             /\ m.l1 + 1 + m.l2 + 1 + m.l3 <= n
             /\ WidthAllows(regex[1], m.l1) /\ digitsAt(1, m.l1)
             /\ WidthAllows(regex[2], m.l2) /\ digitsAt(m.l1 + 2, m.l2)
             /\ WidthAllows(regex[3], m.l3) /\ digitsAt(m.l1 + m.l2 + 3, m.l3)
             /\ IsModifierSuffix(Substring(version, m.l1 + m.l2 + m.l3 + 2))}

Prefers(a, b) ==
  \/ a.l1 > b.l1
  \/ a.l1 = b.l1 /\ a.l2 > b.l2
  \/ a.l1 = b.l1 /\ a.l2 = b.l2 /\ a.l3 >= b.l3

RegexExec(regex, version) ==
  LET matches == RegexMatches(regex, version)
  IN IF matches = {} THEN Undefined
     ELSE LET m == CHOOSE a \in matches : \A b \in matches : Prefers(a, b)
              coreLen == IF Len(regex) = 2 THEN m.l1 + 1 + m.l2
                         ELSE m.l1 + m.l2 + m.l3 + 2
          IN Some([major |-> SubSeq(version, 1, m.l1),
                   minor |-> SubSeq(version, m.l1 + 2, m.l1 + 1 + m.l2),
                   micro |-> IF Len(regex) = 2 THEN Undefined
                             ELSE Some(SubSeq(version, m.l1 + m.l2 + 3,
                                              m.l1 + m.l2 + m.l3 + 2)),
                   modifier |-> IF coreLen = Len(version) THEN Undefined
                                ELSE Some(Substring(version, coreLen + 1))])

\* format is an IFormat; the result is null (the empty tuple) or <<the CalVer>>
CalVer_fromString(format, version, prefix) ==
  IF IsDefined(prefix) /\ ~StartsWith(version, Get(prefix)) THEN Undefined
  ELSE LET stripped == IF IsDefined(prefix)
                       THEN Substring(version, Len(Get(prefix))) ELSE version
           groups == RegexExec(format.regex, stripped)
       IN IF ~IsDefined(groups) THEN Undefined
          ELSE Some(CalVer(format,
                           [prefix |-> prefix,
                            major |-> ParseInt(Get(groups).major),
                            minor |-> ParseInt(Get(groups).minor),
                            micro |-> IF IsDefined(Get(groups).micro)
                                      THEN MicroNumber(ParseInt(Get(Get(groups).micro)))
                                      ELSE MicroNaN,
                            modifiers |-> getModifiers(Get(groups).modifier)],
                           prefix))

\* updateCalendar where a D token takes the day of the month itself
updateCalendarSameDay(format, clock) ==
  IF ~IsDefined(format) \/ IsVersionToken(Get(format)) THEN Undefined
  ELSE IF Includes(Get(format), "Y") THEN Some(clock.year)
  ELSE IF Includes(Get(format), "M") THEN Some(clock.month)
  ELSE IF Includes(Get(format), "W") THEN Some(clock.week)
  ELSE IF Includes(Get(format), "D") THEN Some(clock.date)
  ELSE Undefined

\* updateCalendar(format?): a number, or undefined (the empty tuple)
updateCalendar(format, clock) ==
  IF ~IsDefined(format) \/ IsVersionToken(Get(format)) THEN Undefined
  ELSE IF Includes(Get(format), "Y") THEN Some(clock.year)
  ELSE IF Includes(Get(format), "M") THEN Some(clock.month)
  ELSE IF Includes(Get(format), "W") THEN Some(getISO8601WeekNumber(clock))
  ELSE IF Includes(Get(format), "D") THEN Some(clock.date + 1)
  ELSE Undefined

\* String.prototype.substring(start): a negative start counts as 0
SubstringFrom(s, start) == Substring(s, IF start < 0 THEN 0 ELSE start)

RECURSIVE PadStart(_, _, _)
PadStart(s, targetLength, c) ==
  IF Len(s) >= targetLength THEN s ELSE PadStart(<<c>> \o s, targetLength, c)

formatVersionCore(value, format) ==
  LET str == NumberToString(value)
  IN IF IsVersionToken(format) THEN str
     ELSE IF format = YYYY THEN PadStart(str, 4, "0")
     ELSE IF format = ZeroY THEN PadStart(SubstringFrom(str, Len(str) - 3), 3, "0")
     ELSE IF Includes(format, "0") THEN PadStart(SubstringFrom(str, Len(str) - 2), 2, "0")
     ELSE SubstringFrom(str, Len(str) - 2)

CalVer_toString(this) ==
  (IF IsDefined(this.prefix) THEN Get(this.prefix) ELSE <<>>)
    \o formatVersionCore(this.major, this.format.major)
    \o <<".">> \o formatVersionCore(this.minor, this.format.minor)
    \o (IF this.micro.tag # "undefined" /\ IsDefined(this.format.micro)
        THEN <<".">> \o formatVersionCore(this.micro.n, Get(this.format.micro))
        ELSE <<>>)
    \o modifiersToString(this.modifiers)

\* isFormatIdentical that does not look at the micro element
isFormatIdenticalIgnoresMicro(this, other) ==
  /\ this.format.major = other.major
  /\ this.format.minor = other.minor

isFormatIdentical(this, other) ==
  /\ this.format.major = other.major
  /\ this.format.minor = other.minor
  /\ this.format.micro = other.micro

\* compareTo: Throw(...) or Return(-1 | 0 | 1); a comparison with NaN is false
CalVer_compareTo(this, other) ==
  IF ~isFormatIdentical(this, other.format)
  THEN Throw("Unable to compare CalVer with different formats")
  ELSE LET majorCmp == compareNumbers(this.major, other.major)
           minorCmp == compareNumbers(this.minor, other.minor)
           microCmp == IF this.micro.tag = "number" /\ other.micro.tag = "number"
                       THEN compareNumbers(this.micro.n, other.micro.n) ELSE 0
       IN IF majorCmp # 0 THEN Return(majorCmp)
          ELSE IF minorCmp # 0 THEN Return(minorCmp)
          ELSE IF this.micro.tag # "undefined" /\ other.micro.tag # "undefined"
                  /\ microCmp # 0
          THEN Return(microCmp)
          ELSE Return(compareModifiers(this.modifiers, other.modifiers))

ResultIs(result, n) ==
  IF result.throws THEN result ELSE Return(result.value = n)

CalVer_isEqualTo(this, other) == ResultIs(CalVer_compareTo(this, other), 0)

CalVer_isGreaterThan(this, other) == ResultIs(CalVer_compareTo(this, other), 1)

CalVer_isLessThan(this, other) == ResultIs(CalVer_compareTo(this, other), -1)

\* the keys of this.format (major, minor, micro) whose element is the token
FormatKeys(format, token) ==
  {key \in {"major", "minor", "micro"} :
     IF key = "micro" THEN format.micro = Some(token) ELSE format[key] = token}

\* a ?? b for an optional number a
OrElse(a, b) == IF IsDefined(a) THEN Get(a) ELSE b

\* the CALENDAR branch: the calendar-only version, then the reset
CalendarOnly(this, clock) ==
  CalVer(this.format,
         [prefix |-> this.prefix,
          major |-> OrElse(updateCalendar(Some(this.format.major), clock), this.major),
          minor |-> OrElse(updateCalendar(Some(this.format.minor), clock), this.minor),
          micro |-> IF IsDefined(updateCalendar(this.format.micro, clock))
                    THEN MicroNumber(Get(updateCalendar(this.format.micro, clock)))
                    ELSE this.micro,
          modifiers |-> this.modifiers],
         Undefined)

\* the loop over "major", "minor", "micro": the key bound to MAJOR, to MINOR
\* and to MICRO is set to 0; then the modifiers are emptied
IsResetKey(format, key) ==
  \E token \in {MAJOR, MINOR, MICRO} : FormatKeys(format, token) = {key}

ResetVersionCores(this, newVersion) ==
  [newVersion EXCEPT
     !.major = IF IsResetKey(this.format, "major") THEN 0 ELSE @,
     !.minor = IF IsResetKey(this.format, "minor") THEN 0 ELSE @,
     !.micro = IF IsResetKey(this.format, "micro") THEN MicroNumber(0) ELSE @,
     !.modifiers = <<>>]

\* case "CALENDAR" with an equal calendar bumping the "build" modifier
IncrementCalendarBumpsBuild(this, clock) ==
  LET newVersion == CalendarOnly(this, clock)
  IN IF CalVer_isEqualTo(newVersion, this).throws
     THEN CalVer_isEqualTo(newVersion, this)
     ELSE IF CalVer_isEqualTo(newVersion, this).value
     THEN Return([this EXCEPT !.modifiers = incrementModifier(@, <<"b", "u", "i", "l", "d">>)])
     ELSE Return(ResetVersionCores(this, newVersion))

\* case "CALENDAR" of increment
IncrementCalendar(this, clock) ==
  LET newVersion == CalendarOnly(this, clock)
  IN IF CalVer_isEqualTo(newVersion, this).throws
     THEN CalVer_isEqualTo(newVersion, this)
     ELSE IF CalVer_isEqualTo(newVersion, this).value THEN Return(this)
     ELSE Return(ResetVersionCores(this, newVersion))

\* cases "MAJOR", "MINOR", "MICRO" where the minor item forgets the major
IncrementVersionCoreDropsMajor(this, type) ==
  LET token == CASE type = "MAJOR" -> MAJOR
                 [] type = "MINOR" -> MINOR
                 [] type = "MICRO" -> MICRO
      filter == FormatKeys(this.format, token)
  IN IF Cardinality(filter) # 1
     THEN Throw("Unable to increment version as it is not part of the format")
     ELSE IF filter = {"major"}
     THEN Return(CalVer(this.format,
                        [major |-> this.major + 1, modifiers |-> <<>>],
                        Undefined))
     ELSE IF filter = {"minor"}
     THEN Return(CalVer(this.format,
                        [minor |-> this.minor + 1, modifiers |-> <<>>],
                        Undefined))
     ELSE Return(CalVer(this.format,
                        [major |-> this.major, minor |-> this.minor,
                         micro |-> IF this.micro.tag = "NaN" THEN MicroNaN
                                   ELSE MicroNumber(
                                          (IF this.micro.tag = "undefined"
                                           THEN 0 ELSE this.micro.n) + 1),
                         modifiers |-> <<>>],
                        Undefined))

\* cases "MAJOR", "MINOR", "MICRO" where the other slots keep their values
IncrementVersionCoreKeepsRest(this, type) ==
  LET token == CASE type = "MAJOR" -> MAJOR
                 [] type = "MINOR" -> MINOR
                 [] type = "MICRO" -> MICRO
      filter == FormatKeys(this.format, token)
  IN IF Cardinality(filter) # 1
     THEN Throw("Unable to increment version as it is not part of the format")
     ELSE IF filter = {"major"}
     THEN Return([this EXCEPT !.major = @ + 1, !.modifiers = <<>>])
     ELSE IF filter = {"minor"}
     THEN Return([this EXCEPT !.minor = @ + 1, !.modifiers = <<>>])
     ELSE Return([this EXCEPT !.micro = MicroNumber(@.n + 1), !.modifiers = <<>>])

\* cases "MAJOR", "MINOR", "MICRO" where the slot is the one named as the type
IncrementVersionCoreByName(this, type) ==
  LET token == CASE type = "MAJOR" -> MAJOR
                 [] type = "MINOR" -> MINOR
                 [] type = "MICRO" -> MICRO
      filter == FormatKeys(this.format, token)
  IN IF Cardinality(filter) # 1
     THEN Throw("Unable to increment version as it is not part of the format")
     ELSE IF type = "MAJOR"
     THEN Return(CalVer(this.format,
                        [major |-> this.major + 1, modifiers |-> <<>>],
                        Undefined))
     ELSE IF type = "MINOR"
     THEN Return(CalVer(this.format,
                        [major |-> this.major, minor |-> this.minor + 1,
                         modifiers |-> <<>>],
                        Undefined))
     ELSE Return(CalVer(this.format,
                        [major |-> this.major, minor |-> this.minor,
                         micro |-> IF this.micro.tag = "NaN" THEN MicroNaN
                                   ELSE MicroNumber(
                                          (IF this.micro.tag = "undefined"
                                           THEN 0 ELSE this.micro.n) + 1),
                         modifiers |-> <<>>],
                        Undefined))

\* cases "MAJOR", "MINOR", "MICRO" where a token missing from the format
\* returns the receiver
IncrementVersionCoreNeverThrows(this, type) ==
  LET token == CASE type = "MAJOR" -> MAJOR
                 [] type = "MINOR" -> MINOR
                 [] type = "MICRO" -> MICRO
      filter == FormatKeys(this.format, token)
  IN IF Cardinality(filter) # 1
     THEN Return(this)
     ELSE IF filter = {"major"}
     THEN Return(CalVer(this.format,
                        [major |-> this.major + 1, modifiers |-> <<>>],
                        Undefined))
     ELSE IF filter = {"minor"}
     THEN Return(CalVer(this.format,
                        [major |-> this.major, minor |-> this.minor + 1,
                         modifiers |-> <<>>],
                        Undefined))
     ELSE Return(CalVer(this.format,
                        [major |-> this.major, minor |-> this.minor,
                         micro |-> IF this.micro.tag = "NaN" THEN MicroNaN
                                   ELSE MicroNumber(
                                          (IF this.micro.tag = "undefined"
                                           THEN 0 ELSE this.micro.n) + 1),
                         modifiers |-> <<>>],
                        Undefined))

\* cases "MAJOR", "MINOR", "MICRO" of increment
IncrementVersionCore(this, type) ==
  LET token == CASE type = "MAJOR" -> MAJOR
                 [] type = "MINOR" -> MINOR
                 [] type = "MICRO" -> MICRO
      filter == FormatKeys(this.format, token)
  IN IF Cardinality(filter) # 1
     THEN Throw("Unable to increment version as it is not part of the format")
     ELSE IF filter = {"major"}
     THEN Return(CalVer(this.format,
                        [major |-> this.major + 1, modifiers |-> <<>>],
                        Undefined))
     ELSE IF filter = {"minor"}
     THEN Return(CalVer(this.format,
                        [major |-> this.major, minor |-> this.minor + 1,
                         modifiers |-> <<>>],
                        Undefined))
     ELSE Return(CalVer(this.format,
                        [major |-> this.major, minor |-> this.minor,
                         micro |-> IF this.micro.tag = "NaN" THEN MicroNaN
                                   ELSE MicroNumber(
                                          (IF this.micro.tag = "undefined"
                                           THEN 0 ELSE this.micro.n) + 1),
                         modifiers |-> <<>>],
                        Undefined))

\* increment where MODIFIER defaults to "build"
CalVer_incrementDefaultsToBuild(this, type, modifier, clock) ==
  CASE type = "CALENDAR" -> IncrementCalendar(this, clock)
    [] type \in {"MAJOR", "MINOR", "MICRO"} -> IncrementVersionCore(this, type)
    [] type = "MODIFIER" ->
         Return(CalVer(this.format,
                       [prefix |-> this.prefix, major |-> this.major,
                        minor |-> this.minor, micro |-> this.micro,
                        modifiers |->
                          incrementModifier(this.modifiers,
                                            IF IsDefined(modifier) THEN Get(modifier)
                                            ELSE <<"b", "u", "i", "l", "d">>)],
                       Undefined))

\* increment: Throw(...) or Return(the CalVer)
CalVer_increment(this, type, modifier, clock) ==
  CASE type = "CALENDAR" -> IncrementCalendar(this, clock)
    [] type \in {"MAJOR", "MINOR", "MICRO"} -> IncrementVersionCore(this, type)
    [] type = "MODIFIER" ->
         Return(CalVer(this.format,
                       [prefix |-> this.prefix, major |-> this.major,
                        minor |-> this.minor, micro |-> this.micro,
                        modifiers |->
                          incrementModifier(this.modifiers,
                                            IF IsDefined(modifier) THEN Get(modifier)
                                            ELSE <<"r", "c">>)],
                       Undefined))

(***************************************************************************)
(* The values a client constructs, and the clock readings.                 *)
(***************************************************************************)
IdA == <<"a">>
IdRC == <<"r", "c">>
IdBuild == <<"b", "u", "i", "l", "d">>

ModifierInputs ==
  {Modifier(Some(IdA), 0, 0), Modifier(Some(IdA), 1, 1),
   Modifier(Some(IdRC), 1, 1), Modifier(Some(IdBuild), 1, 1),
   Modifier(Undefined, 1, 1)}

ChainInputs ==
  UNION {[1..n -> ModifierInputs] : n \in 0..MaxChain}
    \cup {<<Modifier(Some(IdA), 1, 1), Modifier(Some(IdRC), 1, 1)>>,
          <<Modifier(Some(IdA), 0, 0), Modifier(Some(IdBuild), 9, 1)>>}

PrefixInputs == {Undefined, Some(<<"v">>)}

BuildInputs == {Undefined, Some(<<"b", ".", "1">>)}

SemVerInputs ==
  {SemVer([prefix |-> p, major |-> ma, minor |-> mi, patch |-> pa,
           preReleases |-> c, build |-> b]) :
     p \in PrefixInputs, ma \in 0..MaxCore, mi \in 0..MaxCore, pa \in 0..MaxCore,
     c \in ChainInputs, b \in BuildInputs}

\* 2023-04-12 (a Wednesday, ISO week 15) and 2024-01-01 (a Monday, ISO week 1)
Clocks ==
  <<[year |-> 2023, month |-> 4, week |-> 15, date |-> 12],
    [year |-> 2024, month |-> 1, week |-> 1, date |-> 1]>>

FormatTemplates ==
  {YYYY \o <<".">> \o MINOR,
   YY \o <<".">> \o MINOR,
   MAJOR \o <<".">> \o MINOR,
   MINOR \o <<".">> \o WW,
   YYYY \o <<".">> \o ZeroM \o <<".">> \o MICRO,
   ZeroD \o <<".">> \o MAJOR \o <<".">> \o MINOR,
   YYYY \o <<".">> \o MM \o <<".">> \o DD}

FormatInputs == {formatFromString(t).value : t \in FormatTemplates}

\* the values a slot is constructed with: a calendar slot holds a reading of
\* one of the clocks or an earlier one, a version slot a small counter
SlotInputs(token) ==
  IF IsVersionToken(token) THEN 0..MaxCore
  ELSE IF Includes(token, "Y") THEN {23, 2022, 2023}
  ELSE IF Includes(token, "M") THEN {3, 4}
  ELSE IF Includes(token, "W") THEN {14, 15}
  ELSE {12, 13}

CalChainInputs ==
  {<<>>,
   <<Modifier(Some(IdBuild), 1, 1)>>,
   <<Modifier(Some(IdA), 0, 0)>>,
   <<Modifier(Some(IdA), 1, 1), Modifier(Some(IdBuild), 2, 1)>>}

CalVerInputs ==
  UNION {
    {CalVer(f, [prefix |-> p, major |-> ma, minor |-> mi, modifiers |-> c], Undefined) :
       p \in PrefixInputs, ma \in SlotInputs(f.major), mi \in SlotInputs(f.minor),
       c \in CalChainInputs}
    \cup
    (IF IsDefined(f.micro)
     THEN {CalVer(f, [prefix |-> p, major |-> ma, minor |-> mi,
                      micro |-> MicroNumber(mc), modifiers |-> c], Undefined) :
             p \in PrefixInputs, ma \in SlotInputs(f.major),
             mi \in SlotInputs(f.minor), mc \in SlotInputs(Get(f.micro)),
             c \in CalChainInputs}
     ELSE {CalVer(f, [prefix |-> p, major |-> ma, minor |-> mi,
                      micro |-> MicroNaN, modifiers |-> c], Undefined) :
             p \in PrefixInputs, ma \in SlotInputs(f.major),
             mi \in SlotInputs(f.minor), c \in CalChainInputs})
    : f \in FormatInputs}

ModifierArgs == {Undefined, Some(IdA), Some(IdBuild)}

SemVerIncrementTypes == {"MAJOR", "MINOR", "PATCH", "PRERELEASE"}

CalVerIncrementTypes == {"CALENDAR", "MAJOR", "MINOR", "MICRO", "MODIFIER"}

\* the optional modifier argument is only read by PRERELEASE and MODIFIER
ArgsOf(type) ==
  IF type \in {"PRERELEASE", "MODIFIER"} THEN ModifierArgs ELSE {Undefined}

(***************************************************************************)
(* Spec: a client holds one version and increments it, while the clock     *)
(* advances.                                                               *)
(***************************************************************************)
Init ==
  /\ \/ ver \in SemVerInputs /\ now = 1
     \/ ver \in CalVerInputs /\ now \in 1..Len(Clocks)
  /\ text = <<>>
  /\ last = [op |-> "new"]
  /\ steps = 0

SemVerIncrement ==
  /\ ver.kind = "SemVer"
  /\ steps < MaxSteps
  /\ \E type \in SemVerIncrementTypes : \E modifier \in ArgsOf(type) :
       LET result == SemVer_increment(ver, type, modifier)
       IN /\ ver' = result
          /\ last' = [op |-> "increment", this |-> ver, type |-> type,
                      modifier |-> modifier, throws |-> FALSE, result |-> result]
  /\ steps' = steps + 1
  /\ UNCHANGED <<now, text>>

CalVerIncrement ==
  /\ ver.kind = "CalVer"
  /\ steps < MaxSteps
  /\ \E type \in CalVerIncrementTypes : \E modifier \in ArgsOf(type) :
       LET result == CalVer_increment(ver, type, modifier, Clocks[now])
       IN /\ ver' = IF result.throws THEN ver ELSE result.value
          /\ last' = [op |-> "increment", this |-> ver, type |-> type,
                      modifier |-> modifier, clock |-> Clocks[now],
                      throws |-> result.throws,
                      result |-> IF result.throws THEN ver ELSE result.value]
  /\ steps' = steps + 1
  /\ UNCHANGED <<now, text>>

Tick ==
  /\ ver.kind = "CalVer"
  /\ now < Len(Clocks)
  /\ now' = now + 1
  /\ UNCHANGED <<ver, text, last, steps>>

Next == SemVerIncrement \/ CalVerIncrement \/ Tick

Spec == Init /\ [][Next]_vars

(***************************************************************************)
(* Claims about increment, checked under Spec.                             *)
(***************************************************************************)
SemVerIncremented(type) ==
  last.op = "increment" /\ last.this.kind = "SemVer" /\ last.type = type

CalVerIncremented(type) ==
  last.op = "increment" /\ last.this.kind = "CalVer" /\ last.type = type

TokenOf(type) ==
  CASE type = "MAJOR" -> MAJOR [] type = "MINOR" -> MINOR [] type = "MICRO" -> MICRO

TokenOccurs(format, token) ==
  format.major = token \/ format.minor = token \/ format.micro = Some(token)

\* C3: incrementing a SemVer by MAJOR, MINOR or PATCH, or a CalVer by MAJOR,
\* MINOR or MICRO when that token occurs in its format, returns a version
\* that isGreaterThan the receiver, whatever chain and build the receiver has.
C3_IncrementIsGreater ==
  /\ \A type \in {"MAJOR", "MINOR", "PATCH"} :
       SemVerIncremented(type) => SemVer_isGreaterThan(last.result, last.this)
  /\ \A type \in {"MAJOR", "MINOR", "MICRO"} :
       CalVerIncremented(type) /\ TokenOccurs(last.this.format, TokenOf(type))
         => /\ ~last.throws
            /\ CalVer_isGreaterThan(last.result, last.this) = Return(TRUE)

C3_Witness ==
  \/ /\ SemVerIncremented("MINOR")
     /\ last.this.major > 0 /\ last.this.preReleases # <<>>
     /\ IsDefined(last.this.build)
  \/ /\ CalVerIncremented("MINOR")
     /\ last.this.format.micro = Some(MINOR)
     /\ last.this.modifiers # <<>> /\ last.this.major > 0

\* C4: SemVer.increment(MAJOR) gives major+1, minor 0, patch 0; MINOR gives
\* minor+1, patch 0, major kept; PATCH gives patch+1, major and minor kept;
\* each with an empty pre-release chain, no build and the receiver's prefix.
C4_SemVerCoreIncrement ==
  /\ SemVerIncremented("MAJOR") =>
       /\ last.result.major = last.this.major + 1
       /\ last.result.minor = 0 /\ last.result.patch = 0
  /\ SemVerIncremented("MINOR") =>
       /\ last.result.major = last.this.major
       /\ last.result.minor = last.this.minor + 1 /\ last.result.patch = 0
  /\ SemVerIncremented("PATCH") =>
       /\ last.result.major = last.this.major
       /\ last.result.minor = last.this.minor
       /\ last.result.patch = last.this.patch + 1
  /\ \A type \in {"MAJOR", "MINOR", "PATCH"} :
       SemVerIncremented(type) =>
         /\ last.result.preReleases = <<>>
         /\ last.result.build = Undefined
         /\ last.result.prefix = last.this.prefix

C4_Witness ==
  /\ SemVerIncremented("MINOR")
  /\ last.this.patch > 0 /\ last.this.preReleases # <<>>
  /\ IsDefined(last.this.build) /\ IsDefined(last.this.prefix)
  /\ last.result.patch = 0 /\ last.result.minor = last.this.minor + 1

\* C5: SemVer.increment(PRERELEASE, name) returns the receiver's major,
\* minor, patch and prefix, no build, and the chain
\* incrementModifier(receiver chain, name), name defaulting to "rc".
C5_SemVerPreReleaseIncrement ==
  SemVerIncremented("PRERELEASE") =>
    /\ last.result.preReleases =
         incrementModifier(last.this.preReleases,
                           IF IsDefined(last.modifier) THEN Get(last.modifier)
                           ELSE IdRC)
    /\ last.result.build = Undefined
    /\ last.result.major = last.this.major
    /\ last.result.minor = last.this.minor
    /\ last.result.patch = last.this.patch
    /\ last.result.prefix = last.this.prefix

C5_Witness ==
  /\ SemVerIncremented("PRERELEASE")
  /\ ~IsDefined(last.modifier)
  /\ IsDefined(last.this.build) /\ IsDefined(last.this.prefix)
  /\ last.this.preReleases = <<Modifier(Some(IdA), 1, 1), Modifier(Some(IdRC), 1, 1)>>
  /\ last.result.preReleases =
       <<Modifier(Some(IdA), 1, 1), Modifier(Some(IdRC), 2, 1)>>

CalendarTokens == {YYYY, YY, ZeroY, MM, ZeroM, WW, ZeroW, DD, ZeroD}

ClockValue(token, clock) ==
  CASE token \in {YYYY, YY, ZeroY} -> clock.year
    [] token \in {MM, ZeroM} -> clock.month
    [] token \in {WW, ZeroW} -> clock.week
    [] token \in {DD, ZeroD} -> clock.date + 1

\* the slots of a version: the token bound to each and the number it holds
BoundSlots(v) ==
  {[token |-> v.format.major, value |-> v.major],
   [token |-> v.format.minor, value |-> v.minor]}
  \cup (IF IsDefined(v.format.micro) /\ v.micro.tag = "number"
        THEN {[token |-> Get(v.format.micro), value |-> v.micro.n]} ELSE {})

CalendarIsCurrent(v, clock) ==
  \A slot \in BoundSlots(v) :
    slot.token \in CalendarTokens => slot.value = ClockValue(slot.token, clock)

C9_CalendarEqualBumpsBuild ==
  CalVerIncremented("CALENDAR")
  /\ CalVer_isEqualTo(CalendarOnly(last.this, last.clock), last.this) = Return(TRUE)
    => /\ BoundSlots(last.result) = BoundSlots(last.this)
       /\ last.result.modifiers = incrementModifier(last.this.modifiers, IdBuild)

\* 2023.1 under YYYY.MINOR, incremented by CALENDAR in 2023, stays 2023.1
C9_Witness ==
  /\ CalVerIncremented("CALENDAR")
  /\ last.this.format.major = YYYY /\ last.this.format.minor = MINOR
  /\ last.this.major = 2023 /\ last.clock.year = 2023 /\ last.this.minor = 1
  /\ last.this.modifiers = <<>> /\ ~IsDefined(last.this.prefix)
  /\ last.result.modifiers = <<>>
  /\ CalVer_toString(last.result) = <<"2", "0", "2", "3", ".", "1">>

SlotCount(format) == IF IsDefined(format.micro) THEN 3 ELSE 2

TokenAt(format, j) ==
  CASE j = 1 -> format.major [] j = 2 -> format.minor [] j = 3 -> Get(format.micro)

SlotAt(v, j) == CASE j = 1 -> v.major [] j = 2 -> v.minor [] j = 3 -> v.micro.n

SlotOf(format, token) ==
  CHOOSE j \in 1..SlotCount(format) : TokenAt(format, j) = token

VersionCoreIncremented(type) ==
  /\ type \in {"MAJOR", "MINOR", "MICRO"}
  /\ CalVerIncremented(type)
  /\ TokenOccurs(last.this.format, TokenOf(type))

C12_VersionCoreIncrement ==
  \A type \in {"MAJOR", "MINOR", "MICRO"} :
    VersionCoreIncremented(type) =>
      LET k == SlotOf(last.this.format, TokenOf(type))
      IN /\ ~last.throws
         /\ \A j \in 1..SlotCount(last.this.format) :
              SlotAt(last.result, j) =
                IF j < k THEN SlotAt(last.this, j)
                ELSE IF j = k THEN SlotAt(last.this, j) + 1 ELSE 0
         /\ last.result.modifiers = <<>>

\* 12.1.1-build.1 under 0D.MAJOR.MINOR, incremented by MAJOR, is 12.2.0
C12_Witness ==
  /\ VersionCoreIncremented("MAJOR")
  /\ last.this.format.major = ZeroD /\ last.this.format.minor = MAJOR
  /\ last.this.major = 12 /\ last.this.minor = 1 /\ last.this.micro.n = 1
  /\ last.this.modifiers # <<>>
  /\ CalVer_toString([last.result EXCEPT !.prefix = Undefined]) =
       <<"1", "2", ".", "2", ".", "0">>

\* C13: CalVer.increment(K), K in MAJOR, MINOR, MICRO, throws and returns no
\* version when no slot of the receiver's format holds token K; the version
\* held stays the receiver.
C13_TokenNotInFormat ==
  \A type \in {"MAJOR", "MINOR", "MICRO"} :
    CalVerIncremented(type) /\ ~TokenOccurs(last.this.format, TokenOf(type))
      => last.throws /\ ver = last.this

C13_Witness ==
  /\ CalVerIncremented("MAJOR")
  /\ last.this.format.major = YYYY /\ last.this.format.minor = MINOR
  /\ last.throws /\ ver = last.this

\* C14 as stated: CalVer.increment(MODIFIER, name) returns the receiver's
\* slots with the chain incrementModifier(receiver chain, name), name
\* defaulting to "build".
C14_ModifierDefaultsToBuild ==
  CalVerIncremented("MODIFIER") =>
    /\ ~last.throws
    /\ last.result.modifiers =
         incrementModifier(last.this.modifiers,
                           IF IsDefined(last.modifier) THEN Get(last.modifier)
                           ELSE IdBuild)
    /\ BoundSlots(last.result) = BoundSlots(last.this)

\* C14 amended: CalVer.increment(MODIFIER, name) returns the receiver's slots
\* with the chain incrementModifier(receiver chain, name), name defaulting to
\* "rc".
C14_ModifierDefaultsToRc ==
  CalVerIncremented("MODIFIER") =>
    /\ ~last.throws
    /\ last.result.modifiers =
         incrementModifier(last.this.modifiers,
                           IF IsDefined(last.modifier) THEN Get(last.modifier)
                           ELSE IdRC)
    /\ BoundSlots(last.result) = BoundSlots(last.this)
    /\ last.result.micro = last.this.micro

\* 2023.1-build.1 under YYYY.MINOR, incremented by MODIFIER with no name, is
\* 2023.1-build.1.rc.1
C14_Witness ==
  /\ CalVerIncremented("MODIFIER")
  /\ ~IsDefined(last.modifier)
  /\ last.this.format.major = YYYY /\ last.this.format.minor = MINOR
  /\ last.this.major = 2023 /\ last.this.minor = 1
  /\ last.this.modifiers = <<Modifier(Some(IdBuild), 1, 1)>>
  /\ last.result.modifiers =
       <<Modifier(Some(IdBuild), 1, 1), Modifier(Some(IdRC), 1, 1)>>
  /\ last.result.major = 2023 /\ last.result.minor = 1

(***************************************************************************)
(* SpecOrder: a client holds one version and compares it with another.     *)
(***************************************************************************)
MaxOrderCore == 1

OrderChains ==
  {<<>>,
   <<Modifier(Some(IdA), 0, 0)>>,
   <<Modifier(Some(IdA), 1, 1)>>,
   <<Modifier(Some(IdRC), 1, 1)>>,
   <<Modifier(Undefined, 1, 1)>>,
   <<Modifier(Some(IdA), 1, 1), Modifier(Some(IdRC), 1, 1)>>}

SemVerOrderInputs ==
  {SemVer([major |-> ma, minor |-> mi, patch |-> pa, preReleases |-> c, build |-> b]) :
     ma \in 0..MaxOrderCore, mi \in 0..1, pa \in 0..1,
     c \in OrderChains, b \in BuildInputs}

OrderFormats ==
  {formatFromString(YYYY \o <<".">> \o MINOR).value,
   formatFromString(YY \o <<".">> \o MINOR).value,
   formatFromString(YYYY \o <<".">> \o MINOR \o <<".">> \o MICRO).value,
   formatFromString(YYYY \o <<".">> \o ZeroM \o <<".">> \o MICRO).value}

Alpha == <<"a", "l", "p", "h", "a">>
Beta == <<"b", "e", "t", "a">>

\* the modifier texts of versions parsed to compare their chains
PrecedenceTexts ==
  {<<>>, <<"-">> \o Alpha, <<"-">> \o Alpha \o <<".", "1">>,
   <<"-">> \o Alpha \o <<".">> \o Beta, <<"-", "r", "c", ".", "1">>,
   <<"-", "1">>, <<"-">> \o Alpha \o <<".", "1", ".", "1">>}

PrecedenceInputs ==
  {Get(CalVer_fromString(formatFromString(YYYY \o <<".">> \o MINOR).value,
                         <<"2", "0", "2", "3", ".", "1">> \o t, Undefined)) :
     t \in PrecedenceTexts}

\* the micro a CalVer is built with: none (new CalVer(format, {major, minor})),
\* a number ({micro: n}), or for a format of two tokens the parseInt(undefined)
\* of fromString
MicroOrderInputs(format) ==
  {MicroUndefined} \cup {MicroNumber(n) : n \in 0..MaxOrderCore}
    \cup (IF IsDefined(format.micro) THEN {} ELSE {MicroNaN})

CalVerOrderInputs ==
  UNION {
    {CalVer(f, [major |-> ma, minor |-> mi, micro |-> mc, modifiers |-> c], Undefined) :
       ma \in {2022, 2023}, mi \in SlotInputs(f.minor), mc \in MicroOrderInputs(f),
       c \in CalChainInputs}
    : f \in OrderFormats}
  \cup PrecedenceInputs

InitOrder ==
  /\ ver \in SemVerOrderInputs \cup CalVerOrderInputs
  /\ now = 1
  /\ text = <<>>
  /\ last = [op |-> "new"]
  /\ steps = 0

SemVerCompare ==
  /\ ver.kind = "SemVer"
  /\ last.op = "new"
  /\ \E other \in SemVerOrderInputs :
       last' = [op |-> "compareTo", this |-> ver, other |-> other, throws |-> FALSE,
                result |-> SemVer_compareTo(ver, other),
                reverse |-> SemVer_compareTo(other, ver),
                isEqualTo |-> SemVer_isEqualTo(ver, other),
                isGreaterThan |-> SemVer_isGreaterThan(ver, other),
                isLessThan |-> SemVer_isLessThan(ver, other)]
  /\ UNCHANGED <<ver, now, text, steps>>

CalVerCompare ==
  /\ ver.kind = "CalVer"
  /\ last.op = "new"
  /\ \E other \in CalVerOrderInputs :
       last' = IF CalVer_compareTo(ver, other).throws
               THEN [op |-> "compareTo", this |-> ver, other |-> other, throws |-> TRUE,
                     comparatorsThrow |-> /\ CalVer_isEqualTo(ver, other).throws
                                          /\ CalVer_isGreaterThan(ver, other).throws
                                          /\ CalVer_isLessThan(ver, other).throws]
               ELSE [op |-> "compareTo", this |-> ver, other |-> other, throws |-> FALSE,
                     comparatorsThrow |-> \/ CalVer_isEqualTo(ver, other).throws
                                          \/ CalVer_isGreaterThan(ver, other).throws
                                          \/ CalVer_isLessThan(ver, other).throws,
                     result |-> CalVer_compareTo(ver, other).value,
                     reverse |-> CalVer_compareTo(other, ver).value,
                     isEqualTo |-> CalVer_isEqualTo(ver, other).value,
                     isGreaterThan |-> CalVer_isGreaterThan(ver, other).value,
                     isLessThan |-> CalVer_isLessThan(ver, other).value]
  /\ UNCHANGED <<ver, now, text, steps>>

NextOrder == SemVerCompare \/ CalVerCompare

SpecOrder == InitOrder /\ [][NextOrder]_vars

SemVerCompared == last.op = "compareTo" /\ last.this.kind = "SemVer"

Sign(a, b) == IF a > b THEN 1 ELSE IF a < b THEN -1 ELSE 0

CompareTo(a, b) ==
  IF a.kind = "SemVer" THEN SemVer_compareTo(a, b) ELSE CalVer_compareTo(a, b).value

ComparableWith(a) ==
  IF a.kind = "SemVer" THEN SemVerOrderInputs
  ELSE {c \in CalVerOrderInputs : isFormatIdentical(a, c.format)}

\* C2 as stated: for two SemVer values, and two CalVer values of one format,
\* exactly one of isEqualTo, isGreaterThan and isLessThan is true and agrees
\* with compareTo (0, 1, -1); compareTo is antisymmetric and transitive.
C2_OrderIsTotal ==
  last.op = "compareTo" /\ ~last.throws =>
    /\ last.result \in {-1, 0, 1}
    /\ last.isEqualTo <=> last.result = 0
    /\ last.isGreaterThan <=> last.result = 1
    /\ last.isLessThan <=> last.result = -1
    /\ last.reverse = 0 - last.result
    /\ \A c \in ComparableWith(last.this) :
         last.result <= 0 /\ CompareTo(last.other, c) <= 0
           => CompareTo(last.this, c) <= 0

\* under YYYY.MINOR, a built with micro 1 equals the parsed b (micro NaN), b
\* equals c built with micro 0, and a is greater than c
C2_Witness ==
  /\ last.op = "compareTo" /\ ~last.throws
  /\ last.this.kind = "CalVer" /\ ~IsDefined(last.this.format.micro)
  /\ last.this.micro = MicroNumber(1) /\ last.other.micro = MicroNaN
  /\ last.result = 0
  /\ \E c \in ComparableWith(last.this) :
       /\ c.micro = MicroNumber(0)
       /\ CompareTo(last.other, c) = 0
       /\ CompareTo(last.this, c) = 1

CalVerCompared == last.op = "compareTo" /\ last.this.kind = "CalVer"

\* C15: CalVer.compareTo, isEqualTo, isGreaterThan and isLessThan throw when
\* the two formats differ in the major, minor or micro token (a micro token
\* on one side only included); for identical formats none throws and
\* compareTo is decided by major, then minor, then micro (where both sides
\* hold one), then the modifier chains.
C15_FormatsMustMatch ==
  CalVerCompared =>
    LET a == last.this
        b == last.other
        differ == \/ a.format.major # b.format.major
                  \/ a.format.minor # b.format.minor
                  \/ a.format.micro # b.format.micro
    IN /\ last.throws <=> differ
       /\ last.comparatorsThrow <=> differ
       /\ ~differ =>
            last.result =
              IF a.major # b.major THEN Sign(a.major, b.major)
              ELSE IF a.minor # b.minor THEN Sign(a.minor, b.minor)
              ELSE IF /\ a.micro.tag = "number" /\ b.micro.tag = "number"
                      /\ a.micro.n # b.micro.n
              THEN Sign(a.micro.n, b.micro.n)
              ELSE compareModifiers(a.modifiers, b.modifiers)

\* YYYY.MINOR against YYYY.MINOR.MICRO with the same major and minor throws
C15_Witness ==
  /\ CalVerCompared
  /\ last.this.format.major = last.other.format.major
  /\ last.this.format.minor = last.other.format.minor
  /\ ~IsDefined(last.this.format.micro) /\ IsDefined(last.other.format.micro)
  /\ last.this.major = last.other.major /\ last.this.minor = last.other.minor
  /\ last.throws /\ last.comparatorsThrow

\* the identifiers of a chain as its text lists them
Identifiers(chain) ==
  IF chain = <<>> THEN <<>> ELSE Split(Tail(modifiersToString(chain)), ".")

\* SemVer 2.0.0 precedence of two pre-release identifiers
IdentifierPrecedence(x, y) ==
  IF IsAllDigits(x) /\ IsAllDigits(y) THEN Sign(ParseInt(x), ParseInt(y))
  ELSE IF IsAllDigits(x) THEN -1
  ELSE IF IsAllDigits(y) THEN 1
  ELSE LocaleCompare(x, y)

RECURSIVE IdentifiersPrecedence(_, _)
IdentifiersPrecedence(x, y) ==
  IF x = <<>> THEN (IF y = <<>> THEN 0 ELSE -1)
  ELSE IF y = <<>> THEN 1
  ELSE IF IdentifierPrecedence(Head(x), Head(y)) # 0
  THEN IdentifierPrecedence(Head(x), Head(y))
  ELSE IdentifiersPrecedence(Tail(x), Tail(y))

\* a version without pre-release is the greater one
ChainPrecedence(a, b) ==
  IF a = <<>> THEN (IF b = <<>> THEN 0 ELSE 1)
  ELSE IF b = <<>> THEN -1
  ELSE IdentifiersPrecedence(Identifiers(a), Identifiers(b))

\* C16 as stated: of two CalVer values with equal slots, compareTo ranks the
\* modifier chains by the SemVer 2.0.0 pre-release precedence: identifiers
\* left to right, numeric below alphanumeric, and with equal shared leading
\* identifiers the chain with more identifiers is the greater.
C16_ChainsBySemVerPrecedence ==
  CalVerCompared /\ ~last.throws
  /\ last.this.major = last.other.major /\ last.this.minor = last.other.minor
  /\ last.this.micro = last.other.micro
    => last.result = ChainPrecedence(last.this.modifiers, last.other.modifiers)

\* 2023.1-alpha.1 compares as greater than 2023.1-alpha.beta
C16_Witness ==
  /\ CalVerCompared /\ ~last.throws
  /\ last.this \in PrecedenceInputs /\ last.other \in PrecedenceInputs
  /\ last.this.modifiers = getModifiers(Some(Alpha \o <<".", "1">>))
  /\ last.other.modifiers = getModifiers(Some(Alpha \o <<".">> \o Beta))
  /\ last.result = 1

(***************************************************************************)
(* SpecText: a client parses a string with fromString and renders the      *)
(* version it gets with toString.                                          *)
(***************************************************************************)
MaxIdLen == 2

IdAlphabet == {"0", "1", "a", "-"}

\* the pre-release identifiers tried: every string over IdAlphabet
IdentifierTexts == UNION {[1..n -> IdAlphabet] : n \in 1..MaxIdLen}

SemVerCoreTexts ==
  {<<"0", ".", "0", ".", "0">>, <<"1", ".", "0", ".", "1">>,
   <<"0", "1", ".", "0", ".", "0">>, <<"1", ".", "0">>}

PreReleaseTexts ==
  {<<>>} \cup {<<"-">> \o id : id \in IdentifierTexts}
         \cup {<<"-", "r", "c", ".">> \o id : id \in IdentifierTexts}

BuildTexts == {<<>>, <<"+", "b", ".", "1">>, <<"+">>}

PrefixTexts == {<<>>, <<"v">>}

SemVerTexts ==
  {p \o core \o pre \o build :
     p \in PrefixTexts, core \in SemVerCoreTexts, pre \in PreReleaseTexts,
     build \in BuildTexts}

CalVerSuffixTexts ==
  {<<>>, <<"-", "b", "u", "i", "l", "d", ".", "1">>,
   <<"-", "b", "u", "i", "l", "d", ".", "0", "1">>, <<"-", "a">>}

CalVerTexts ==
  {p \o s1 \o sep \o s2 \o s3 \o suffix :
     p \in PrefixTexts,
     s1 \in {<<"2", "0", "2", "3">>, <<"2", "3">>, <<"0", "2", "3">>, <<"1">>,
             <<"0", "4">>, <<"1", "0", "1">>},
     sep \in {<<".">>, <<"x">>},
     s2 \in {<<"1">>, <<"0", "1">>, <<"0", "4">>, <<"1", "5">>},
     s3 \in {<<>>, <<".", "1">>, <<".", "0", "1">>, <<".", "1", "3">>},
     suffix \in CalVerSuffixTexts}

NoVersion == [kind |-> "none"]

InitText ==
  /\ text \in SemVerTexts \cup CalVerTexts
  /\ ver = NoVersion
  /\ now = 1
  /\ last = [op |-> "new"]
  /\ steps = 0

SemVerFromString ==
  /\ last.op = "new"
  /\ \E prefix \in PrefixInputs :
       LET parsed == SemVer_fromString(text, prefix)
       IN /\ ver' = IF IsDefined(parsed) THEN Get(parsed) ELSE ver
          /\ last' = [op |-> "fromString", parser |-> "SemVer", source |-> text,
                      prefix |-> prefix, null |-> ~IsDefined(parsed)]
  /\ UNCHANGED <<now, text, steps>>

CalVerFromString ==
  /\ last.op = "new"
  /\ \E format \in FormatInputs : \E prefix \in PrefixInputs :
       LET parsed == CalVer_fromString(format, text, prefix)
       IN /\ ver' = IF IsDefined(parsed) THEN Get(parsed) ELSE ver
          /\ last' = [op |-> "fromString", parser |-> "CalVer", source |-> text,
                      prefix |-> prefix, format |-> format,
                      null |-> ~IsDefined(parsed)]
  /\ UNCHANGED <<now, text, steps>>

SemVerToString ==
  /\ ver.kind = "SemVer"
  /\ last.op = "fromString"
  /\ text' = SemVer_toString(ver)
  /\ last' = [op |-> "toString", source |-> last.source]
  /\ UNCHANGED <<ver, now, steps>>

CalVerToString ==
  /\ ver.kind = "CalVer"
  /\ last.op = "fromString"
  /\ text' = CalVer_toString(ver)
  /\ last' = [op |-> "toString", source |-> last.source]
  /\ UNCHANGED <<ver, now, steps>>

NextText ==
  SemVerFromString \/ CalVerFromString \/ SemVerToString \/ CalVerToString

SpecText == InitText /\ [][NextText]_vars

\* C6 as stated: for every string s (and optional prefix) that
\* SemVer.fromString accepts, the toString() of the parsed version equals s.
C6_SemVerRoundTrip ==
  last.op = "toString" /\ ver.kind = "SemVer" => text = last.source

\* 1.0.1--0 is accepted and rendered as 1.0.1-0
C6_Witness ==
  /\ last.op = "toString" /\ ver.kind = "SemVer"
  /\ last.source = <<"1", ".", "0", ".", "1", "-", "-", "0">>
  /\ text = <<"1", ".", "0", ".", "1", "-", "0">>

\* C7 as stated: for every format and every string s (and optional prefix)
\* that CalVer.fromString accepts, the toString() of the parsed version
\* equals s.
C7_CalVerRoundTrip ==
  last.op = "toString" /\ ver.kind = "CalVer" => text = last.source

\* 2023.1-build.01 is accepted under YYYY.MINOR and rendered as 2023.1-build.1
C7_Witness ==
  /\ last.op = "toString" /\ ver.kind = "CalVer"
  /\ ver.format.major = YYYY /\ ver.format.minor = MINOR
  /\ last.source = <<"2", "0", "2", "3", ".", "1", "-", "b", "u", "i", "l", "d", ".", "0", "1">>
  /\ text = <<"2", "0", "2", "3", ".", "1", "-", "b", "u", "i", "l", "d", ".", "1">>

\* the rendering of a slot as C17 words it
ClaimedCore(value, token) ==
  IF token \in {MAJOR, MINOR, MICRO} THEN NatToString(value)
  ELSE IF token = YYYY THEN PadStart(NatToString(value), 4, "0")
  ELSE IF token = ZeroY THEN PadStart(NatToString(value % 1000), 3, "0")
  ELSE IF token = YY THEN NatToString(value % 1000)
  ELSE IF token \in {ZeroM, ZeroW, ZeroD} THEN PadStart(NatToString(value % 100), 2, "0")
  ELSE NatToString(value % 100)

\* C17 as stated: CalVer.toString renders each slot by its token (MAJOR,
\* MINOR, MICRO plain; YYYY padded to 4; 0Y the low 3 digits padded to 3; YY
\* the low 3 digits unpadded; 0M, 0W, 0D the low 2 digits padded to 2; MM,
\* WW, DD the low 2 digits unpadded), then the modifier chain suffix.
C17_RenderByToken ==
  last.op = "toString" /\ ver.kind = "CalVer" =>
    text = (IF IsDefined(ver.prefix) THEN Get(ver.prefix) ELSE <<>>)
             \o ClaimedCore(ver.major, ver.format.major)
             \o <<".">> \o ClaimedCore(ver.minor, ver.format.minor)
             \o (IF IsDefined(ver.format.micro)
                 THEN <<".">> \o ClaimedCore(ver.micro.n, Get(ver.format.micro))
                 ELSE <<>>)
             \o modifiersToString(ver.modifiers)

\* 101.1 parsed under YY.MINOR holds the year 101 and renders as 01.1
C17_Witness ==
  /\ last.op = "toString" /\ ver.kind = "CalVer"
  /\ ver.format.major = YY /\ ver.format.minor = MINOR
  /\ last.source = <<"1", "0", "1", ".", "1">>
  /\ ver.major = 101
  /\ text = <<"0", "1", ".", "1">>

\* C18: SemVer.fromString and CalVer.fromString return null when the prefix
\* asked for does not start the text or the rest does not match the
\* expression (a SemVer core with a leading zero included), and a version
\* carrying the prefix otherwise.
C18_NullOnBadText ==
  last.op = "fromString" =>
    LET prefixFound == ~IsDefined(last.prefix)
                         \/ StartsWith(last.source, Get(last.prefix))
        rest == IF IsDefined(last.prefix)
                THEN SubSeq(last.source, Len(Get(last.prefix)) + 1, Len(last.source))
                ELSE last.source
        matches == IF last.parser = "SemVer" THEN IsDefined(SemVerRegexExec(rest))
                   ELSE IsDefined(RegexExec(last.format.regex, rest))
    IN /\ last.null <=> ~(prefixFound /\ matches)
       /\ last.null => ver = NoVersion
       /\ ~last.null =>
            /\ ver.kind = last.parser
            /\ ver.prefix = last.prefix
            /\ last.parser = "CalVer" => ver.format = last.format
       /\ last.parser = "SemVer" /\ Len(rest) >= 2 /\ rest[1] = "0" /\ IsDigit(rest[2])
            => last.null

\* 01.0.0 is not a SemVer, with or without asking for the prefix v
C18_Witness ==
  /\ last.op = "fromString" /\ last.parser = "SemVer"
  /\ last.source = <<"0", "1", ".", "0", ".", "0">>
  /\ last.null /\ ver = NoVersion

(***************************************************************************)
(* SpecFormat: a client compiles a format template with formatFromString.  *)
(***************************************************************************)
MaxTemplateTokens == 3

\* the elements templates are made of: tokens, an unknown element in upper
\* case, one in lower case, and the empty element of a doubled or trailing dot
TemplateElements ==
  {YYYY, YY, ZeroM, WW, MAJOR, MINOR, MICRO, <<"X", "X">>, <<"y", "y">>, <<>>}

\* every template of up to one element more than MaxTemplateTokens
TemplateTexts ==
  {Join(elements, <<".">>) :
     elements \in UNION {[1..n -> TemplateElements] : n \in 1..(MaxTemplateTokens + 1)}}

InitFormat ==
  /\ text \in TemplateTexts
  /\ ver = NoVersion
  /\ now = 1
  /\ last = [op |-> "new"]
  /\ steps = 0

CompileFormat ==
  /\ last.op = "new"
  /\ last' = [op |-> "formatFromString",
              throws |-> formatFromString(text).throws,
              result |-> formatFromString(text)]
  /\ UNCHANGED <<ver, now, text, steps>>

NextFormat == CompileFormat

SpecFormat == InitFormat /\ [][NextFormat]_vars

FormatTokens == {YYYY, YY, ZeroY, MM, ZeroM, WW, ZeroW, DD, ZeroD, MAJOR, MINOR, MICRO}

\* C19: formatFromString returns a format exactly when the template is 2 or
\* 3 dot-separated tokens of the closed set, no two the same, and then binds
\* major, minor and (if present) micro in template order; for every other
\* template it throws.
C19_FormatFromString ==
  last.op = "formatFromString" =>
    LET tokens == Split(text, ".")
        valid == /\ Len(tokens) \in {2, 3}
                 /\ \A i \in 1..Len(tokens) : tokens[i] \in FormatTokens
                 /\ \A i, j \in 1..Len(tokens) : i # j => tokens[i] # tokens[j]
    IN /\ ~last.throws <=> valid
       /\ valid =>
            /\ last.result.value.major = tokens[1]
            /\ last.result.value.minor = tokens[2]
            /\ last.result.value.micro =
                 IF Len(tokens) = 3 THEN Some(tokens[3]) ELSE Undefined

C19_Witness ==
  /\ last.op = "formatFromString"
  /\ text = YYYY \o <<".">> \o ZeroM \o <<".">> \o MICRO
  /\ ~last.throws
  /\ last.result.value.major = YYYY /\ last.result.value.minor = ZeroM
  /\ last.result.value.micro = Some(MICRO)

(***************************************************************************)
(* SpecHeap: the versions as objects in a store.  A version object holds   *)
(* the address of its array of modifiers and of its format; an array holds *)
(* the addresses of its Modifier objects.  increment allocates and writes  *)
(* as the code does, so that what a result shares with its receiver, and   *)
(* what a call writes, are visible.                                        *)
(***************************************************************************)
MaxHeapSteps == 2

\* a new object: the store with it appended, and its address
Alloc(heap, object) == [heap |-> Append(heap, object), value |-> Len(heap) + 1]

\* the array of modifiers of the version at an address
ChainOf(heap, this) ==
  IF heap[this].kind = "SemVer" THEN heap[this].preReleases ELSE heap[this].modifiers

\* the Modifier objects an array refers to
ElementsOf(heap, modifiers) ==
  [i \in 1..Len(heap[modifiers]) |-> heap[heap[modifiers][i]]]

\* the CalVer at an address with its format read
WithFormat(heap, this) == [heap[this] EXCEPT !.format = heap[@]]

\* the version at an address with everything it refers to read
Snapshot(heap, this) ==
  IF heap[this].kind = "SemVer"
  THEN [heap[this] EXCEPT !.preReleases = ElementsOf(heap, @)]
  ELSE [heap[this] EXCEPT !.modifiers = ElementsOf(heap, @), !.format = heap[@]]

\* incrementModifier writing the new value and length into the element found
incrementModifierInPlace(heap, modifiers, identifier) ==
  LET modifiersCopy == Alloc(heap, heap[modifiers])
      element == FindIndex(ElementsOf(heap, modifiers), identifier)
  IN IF element = 0
     THEN LET created == Alloc(modifiersCopy.heap, Modifier(Some(identifier), 1, 1))
          IN Alloc(created.heap, Append(heap[modifiers], created.value))
     ELSE LET nextVersion == heap[heap[modifiers][element]].value + 1
          IN [heap |-> [modifiersCopy.heap EXCEPT
                          ![heap[modifiers][element]] =
                             Modifier(@.identifier, nextVersion,
                                      Len(NumberToString(nextVersion)))],
              value |-> modifiersCopy.value]

\* incrementModifier: [...modifiers] is a new array of the same elements;
\* a missing identifier gives a second new array with a new element, a found
\* one a new element put into the copy
incrementModifierInHeap(heap, modifiers, identifier) ==
  LET modifiersCopy == Alloc(heap, heap[modifiers])
      element == FindIndex(ElementsOf(heap, modifiers), identifier)
  IN IF element = 0
     THEN LET created == Alloc(modifiersCopy.heap, Modifier(Some(identifier), 1, 1))
          IN Alloc(created.heap, Append(heap[modifiers], created.value))
     ELSE LET nextVersion == heap[heap[modifiers][element]].value + 1
              replaced == Alloc(modifiersCopy.heap,
                                Modifier(heap[heap[modifiers][element]].identifier,
                                         nextVersion,
                                         Len(NumberToString(nextVersion))))
          IN [heap |-> [replaced.heap EXCEPT
                          ![modifiersCopy.value][element] = replaced.value],
              value |-> modifiersCopy.value]

\* SemVer.increment: the store after the call and the address returned
SemVer_incrementInHeap(heap, this, type, modifier) ==
  IF type = "PRERELEASE"
  THEN LET chain == incrementModifierInHeap(heap, heap[this].preReleases,
                                            IF IsDefined(modifier) THEN Get(modifier)
                                            ELSE <<"r", "c">>)
       IN Alloc(chain.heap,
                SemVer([prefix |-> heap[this].prefix, major |-> heap[this].major,
                        minor |-> heap[this].minor, patch |-> heap[this].patch,
                        preReleases |-> chain.value, build |-> Undefined]))
  ELSE LET empty == Alloc(heap, <<>>)
       IN Alloc(empty.heap,
                [SemVer_increment(Snapshot(heap, this), type, modifier)
                   EXCEPT !.preReleases = empty.value])

\* CalVer.increment: the store after the call, whether it threw, and the
\* address returned
CalVer_incrementInHeap(heap, this, type, modifier, clock) ==
  CASE type = "CALENDAR" ->
         LET newVersion ==
               Alloc(heap, [CalendarOnly(WithFormat(heap, this), clock)
                              EXCEPT !.format = heap[this].format])
             equal == CalVer_isEqualTo(Snapshot(newVersion.heap, newVersion.value),
                                       Snapshot(heap, this))
             empty == Alloc(newVersion.heap, <<>>)
         IN IF equal.throws
            THEN [heap |-> newVersion.heap, throws |-> TRUE, value |-> this]
            ELSE IF equal.value
            THEN [heap |-> newVersion.heap, throws |-> FALSE, value |-> this]
            ELSE [heap |-> [empty.heap EXCEPT
                              ![newVersion.value] =
                                 [ResetVersionCores(WithFormat(heap, this), @)
                                    EXCEPT !.modifiers = empty.value]],
                  throws |-> FALSE, value |-> newVersion.value]
    [] type \in {"MAJOR", "MINOR", "MICRO"} ->
         LET result == IncrementVersionCore(WithFormat(heap, this), type)
             empty == Alloc(heap, <<>>)
         IN IF result.throws
            THEN [heap |-> heap, throws |-> TRUE, value |-> this]
            ELSE [heap |-> Append(empty.heap,
                                  [result.value EXCEPT
                                     !.format = heap[this].format,
                                     !.modifiers = empty.value]),
                  throws |-> FALSE, value |-> Len(empty.heap) + 1]
    [] type = "MODIFIER" ->
         LET chain == incrementModifierInHeap(heap, heap[this].modifiers,
                                              IF IsDefined(modifier) THEN Get(modifier)
                                              ELSE <<"r", "c">>)
         IN [heap |-> Append(chain.heap,
                             [CalVer(heap[heap[this].format],
                                     [prefix |-> heap[this].prefix,
                                      major |-> heap[this].major,
                                      minor |-> heap[this].minor,
                                      micro |-> heap[this].micro,
                                      modifiers |-> chain.value],
                                     Undefined)
                                EXCEPT !.format = heap[this].format]),
             throws |-> FALSE, value |-> Len(chain.heap) + 1]

\* the store a client has after constructing a version: its Modifier objects,
\* their array, its format if it has one, and the version
Store(version) ==
  LET chain == IF version.kind = "SemVer" THEN version.preReleases
               ELSE version.modifiers
      n == Len(chain)
      array == [i \in 1..n |-> i]
  IN IF version.kind = "SemVer"
     THEN [kind |-> "Heap",
           heap |-> chain \o <<array, [version EXCEPT !.preReleases = n + 1]>>,
           this |-> n + 2]
     ELSE [kind |-> "Heap",
           heap |-> chain \o <<array, version.format,
                               [version EXCEPT !.modifiers = n + 1, !.format = n + 2]>>,
           this |-> n + 3]

HeapChainInputs ==
  {<<>>,
   <<Modifier(Some(IdRC), 9, 1)>>,
   <<Modifier(Some(IdA), 1, 1), Modifier(Some(IdRC), 1, 1)>>,
   <<Modifier(Undefined, 1, 1), Modifier(Some(IdBuild), 2, 1)>>}

HeapSemVerInputs ==
  {SemVer([prefix |-> p, major |-> 1, minor |-> 0, patch |-> pa,
           preReleases |-> c, build |-> b]) :
     p \in PrefixInputs, pa \in 0..MaxCore, c \in HeapChainInputs, b \in BuildInputs}

HeapFormatInputs ==
  {formatFromString(t).value :
     t \in {YYYY \o <<".">> \o MINOR,
            YYYY \o <<".">> \o ZeroM \o <<".">> \o MICRO,
            ZeroD \o <<".">> \o MAJOR \o <<".">> \o MINOR}}

HeapCalVerInputs ==
  {CalVer(f, [major |-> ma, minor |-> mi, modifiers |-> c], Some(<<"v">>)) :
     f \in HeapFormatInputs, ma \in {2023, 13}, mi \in {0, 4}, c \in HeapChainInputs}

InitHeap ==
  /\ \/ ver \in {Store(v) : v \in HeapSemVerInputs} /\ now = 1
     \/ ver \in {Store(v) : v \in HeapCalVerInputs} /\ now \in 1..Len(Clocks)
  /\ text = <<>>
  /\ last = [op |-> "new"]
  /\ steps = 0

HeapSemVerIncrement ==
  /\ ver.heap[ver.this].kind = "SemVer"
  /\ steps < MaxHeapSteps
  /\ \E type \in SemVerIncrementTypes : \E modifier \in ArgsOf(type) :
       LET result == SemVer_incrementInHeap(ver.heap, ver.this, type, modifier)
       IN /\ ver' = [kind |-> "Heap", heap |-> result.heap, this |-> result.value]
          /\ last' = [op |-> "increment", this |-> ver.this, before |-> ver.heap,
                      type |-> type, modifier |-> modifier, throws |-> FALSE,
                      result |-> result.value]
  /\ steps' = steps + 1
  /\ UNCHANGED <<now, text>>

HeapCalVerIncrement ==
  /\ ver.heap[ver.this].kind = "CalVer"
  /\ steps < MaxHeapSteps
  /\ \E type \in CalVerIncrementTypes : \E modifier \in ArgsOf(type) :
       LET result == CalVer_incrementInHeap(ver.heap, ver.this, type, modifier,
                                            Clocks[now])
       IN /\ ver' = [kind |-> "Heap", heap |-> result.heap, this |-> result.value]
          /\ last' = [op |-> "increment", this |-> ver.this, before |-> ver.heap,
                      type |-> type, modifier |-> modifier,
                      throws |-> result.throws, result |-> result.value]
  /\ steps' = steps + 1
  /\ UNCHANGED <<now, text>>

HeapTick ==
  /\ ver.heap[ver.this].kind = "CalVer"
  /\ now < Len(Clocks)
  /\ now' = now + 1
  /\ UNCHANGED <<ver, text, last, steps>>

NextHeap == HeapSemVerIncrement \/ HeapCalVerIncrement \/ HeapTick

SpecHeap == InitHeap /\ [][NextHeap]_vars

\* C20: no increment mutates its receiver: after r = v.increment(K, name),
\* for SemVer and CalVer and every kind K, the prefix, cores, chain (element
\* by element, with each element's value and length), build and format of v
\* are what they were before the call, even when r shares data with v.
C20_ReceiverUnchanged ==
  last.op = "increment" =>
    Snapshot(ver.heap, last.this) = Snapshot(last.before, last.this)

\* the result is another object whose chain differs from the receiver's and
\* holds one of the receiver's own Modifier objects
C20_Witness ==
  /\ last.op = "increment" /\ ~last.throws
  /\ last.result # last.this
  /\ ChainOf(ver.heap, last.result) # ChainOf(ver.heap, last.this)
  /\ Snapshot(ver.heap, last.result) # Snapshot(ver.heap, last.this)
  /\ \E i \in 1..Len(ver.heap[ChainOf(ver.heap, last.result)]) :
       \E j \in 1..Len(ver.heap[ChainOf(ver.heap, last.this)]) :
         ver.heap[ChainOf(ver.heap, last.result)][i]
           = ver.heap[ChainOf(ver.heap, last.this)][j]

(***************************************************************************)
(* Claims about sequences of increments, checked under Spec.               *)
(***************************************************************************)
\* C21: along any sequence of SemVer increments (MAJOR, MINOR, PATCH,
\* PRERELEASE in any order) every version has the prefix of the first one
\* and renders with that prefix as its leading text; MAJOR on a version
\* with prefix v and major 0 renders as v1.0.0.
C21_SemVerPrefixKept ==
  \A type \in SemVerIncrementTypes :
    SemVerIncremented(type) =>
      /\ last.result.prefix = last.this.prefix
      /\ ver = last.result
      /\ StartsWith(SemVer_toString(ver),
                    IF IsDefined(ver.prefix) THEN Get(ver.prefix) ELSE <<>>)
      /\ IsDefined(last.this.prefix) =>
           SemVer_toString(ver) =
             Get(last.this.prefix)
               \o SemVer_toString([ver EXCEPT !.prefix = Undefined])
      /\ (type = "MAJOR" /\ last.this.prefix = Some(<<"v">>) /\ last.this.major = 0) =>
           SemVer_toString(ver) = <<"v", "1", ".", "0", ".", "0">>

\* the second increment of PRERELEASE then MAJOR on v0.0.0
C21_Witness ==
  /\ SemVerIncremented("MAJOR")
  /\ steps = 2
  /\ last.this = SemVer([prefix |-> Some(<<"v">>),
                         preReleases |-> <<Modifier(Some(IdRC), 1, 1)>>])
  /\ SemVer_toString(ver) = <<"v", "1", ".", "0", ".", "0">>

(***************************************************************************)
(* SpecModifiers: a client calls the functions of modifiers.ts on chains   *)
(* and texts.                                                              *)
(***************************************************************************)
MaxModChain == 2

MaxModSegments == 3

\* the Modifier objects of the chains: parsed ones (a, a.1, a.01, B.1, rc.9,
\* a bare 1) and one only a constructor takes (value 2 with length 0)
ModElementInputs ==
  {Modifier(Some(IdA), 0, 0), Modifier(Some(IdA), 1, 1), Modifier(Some(IdA), 1, 2),
   Modifier(Some(<<"B">>), 1, 1), Modifier(Some(IdRC), 9, 1),
   Modifier(Undefined, 1, 1), Modifier(Some(IdA), 2, 0)}

ModChainInputs == UNION {[1..n -> ModElementInputs] : n \in 0..MaxModChain}

\* the segments of the texts: identifiers, numbers with and without a
\* leading zero, the empty segment of a doubled dot, a signed number
ModSegmentInputs ==
  {<<"a">>, <<"r", "c">>, <<"1">>, <<"0", "1">>, <<>>, <<"-", "1">>}

ModTextInputs ==
  {Join(segments, <<".">>) :
     segments \in UNION {[1..n -> ModSegmentInputs] : n \in 1..MaxModSegments}}

InitModifiers ==
  /\ \/ /\ ver \in {[kind |-> "Chains", a |-> a, b |-> b] :
                      a \in ModChainInputs, b \in ModChainInputs}
        /\ text = <<>>
     \/ /\ ver = [kind |-> "Chains", a |-> <<>>, b |-> <<>>]
        /\ text \in ModTextInputs
  /\ now = 1
  /\ last = [op |-> "new"]
  /\ steps = 0

CompareModifiers ==
  /\ last.op = "new" /\ text = <<>>
  /\ last' = [op |-> "compareModifiers", a |-> ver.a, b |-> ver.b,
              result |-> compareModifiers(ver.a, ver.b)]
  /\ UNCHANGED <<ver, now, text, steps>>

IncrementModifier ==
  /\ last.op = "new" /\ text = <<>> /\ ver.b = <<>>
  /\ \E identifier \in {IdA, IdRC, IdBuild} :
       last' = [op |-> "incrementModifier", modifiers |-> ver.a,
                identifier |-> identifier,
                result |-> incrementModifier(ver.a, identifier)]
  /\ UNCHANGED <<ver, now, text, steps>>

ModifiersToString ==
  /\ last.op = "new" /\ text = <<>> /\ ver.b = <<>>
  /\ last' = [op |-> "modifiersToString", modifiers |-> ver.a,
              result |-> modifiersToString(ver.a)]
  /\ UNCHANGED <<ver, now, text, steps>>

\* getModifiers(value?): the text, or nothing where the text is empty
GetModifiers ==
  /\ last.op = "new" /\ ver.a = <<>> /\ ver.b = <<>>
  /\ \E value \in {Some(text)} \cup (IF text = <<>> THEN {Undefined} ELSE {}) :
       last' = [op |-> "getModifiers", value |-> value,
                result |-> getModifiers(value)]
  /\ UNCHANGED <<ver, now, text, steps>>

NextModifiers ==
  CompareModifiers \/ IncrementModifier \/ ModifiersToString \/ GetModifiers

SpecModifiers == InitModifiers /\ [][NextModifiers]_vars

\* the order of the UTF-16 code units of the characters the model uses
CodeUnitOrder ==
  <<"-", "0", "1", "2", "3", "4", "5", "6", "7", "8", "9", "A", "B", "_",
    "a", "b", "c", "d", "e", "f", "g", "h", "i", "j", "k", "l", "m",
    "n", "o", "p", "q", "r", "s", "t", "u", "v", "w", "x", "y", "z">>

CodeUnitRank(c) == CHOOSE i \in 1..Len(CodeUnitOrder) : CodeUnitOrder[i] = c

\* the comparison of two strings by their code units
RECURSIVE OrdinalCompare(_, _)
OrdinalCompare(x, y) ==
  IF x = <<>> THEN (IF y = <<>> THEN 0 ELSE -1)
  ELSE IF y = <<>> THEN 1
  ELSE IF CodeUnitRank(Head(x)) < CodeUnitRank(Head(y)) THEN -1
  ELSE IF CodeUnitRank(Head(x)) > CodeUnitRank(Head(y)) THEN 1
  ELSE OrdinalCompare(Tail(x), Tail(y))

\* the positions where two chains of one length differ in identifier or value
DifferAt(a, b) ==
  {i \in 1..Len(a) :
     IdentifierOrEmpty(a[i]) # IdentifierOrEmpty(b[i]) \/ a[i].value # b[i].value}

WithoutLengths(chain) == [i \in 1..Len(chain) |-> [chain[i] EXCEPT !.length = 0]]

\* what compareModifiers gives for two chains of one length, the identifiers
\* compared by the given string comparison
ByFirstDifference(a, b, Compare(_, _)) ==
  IF DifferAt(a, b) = {} THEN 0
  ELSE LET k == CHOOSE i \in DifferAt(a, b) : \A j \in DifferAt(a, b) : i <= j
       IN IF IdentifierOrEmpty(a[k]) # IdentifierOrEmpty(b[k])
          THEN Compare(IdentifierOrEmpty(a[k]), IdentifierOrEmpty(b[k]))
          ELSE IF a[k].value > b[k].value THEN 1 ELSE -1

\* C22: compareModifiers(a, b) is 1 when a is shorter and -1 when a is
\* longer, whatever the elements; for equal lengths it is decided by the
\* first position where the elements differ, identifiers compared as
\* strings by their code units (a missing identifier as the empty string),
\* then values as numbers, and is 0 when no position differs; the length
\* field of the elements never changes the result.
C22_CompareModifiers ==
  last.op = "compareModifiers" =>
    /\ Len(last.a) < Len(last.b) => last.result = 1
    /\ Len(last.a) > Len(last.b) => last.result = -1
    /\ Len(last.a) = Len(last.b) =>
         last.result = ByFirstDifference(last.a, last.b, OrdinalCompare)
    /\ last.result = compareModifiers(WithoutLengths(last.a), WithoutLengths(last.b))

\* [{B, 1}] against [{a, 1}]: "B" is before "a" by code units and after it
\* in the collation localeCompare uses
C22_Witness ==
  /\ last.op = "compareModifiers"
  /\ last.a = <<Modifier(Some(<<"B">>), 1, 1)>>
  /\ last.b = <<Modifier(Some(IdA), 1, 1)>>
  /\ last.result = 1
  /\ OrdinalCompare(<<"B">>, IdA) = -1

\* the number of decimal digits of a natural number
RECURSIVE DigitCount(_)
DigitCount(n) == IF n < 10 THEN 1 ELSE 1 + DigitCount(n \div 10)

\* C23: incrementModifier(chain, id): if some element has identifier id, the
\* result has the length of chain and differs from it only at the first
\* such element, whose value is one more and whose length is the number of
\* decimal digits of the new value; otherwise the result is chain followed
\* by the element {identifier: id, value: 1, length: 1}.
C23_IncrementModifier ==
  last.op = "incrementModifier" =>
    LET chain == last.modifiers
        found == {i \in 1..Len(chain) : chain[i].identifier = Some(last.identifier)}
    IN IF found = {}
       THEN last.result = chain \o <<Modifier(Some(last.identifier), 1, 1)>>
       ELSE LET first == CHOOSE i \in found : \A j \in found : i <= j
            IN /\ Len(last.result) = Len(chain)
               /\ \A i \in 1..Len(chain) : i # first => last.result[i] = chain[i]
               /\ last.result[first].identifier = chain[first].identifier
               /\ last.result[first].value = chain[first].value + 1
               /\ last.result[first].length = DigitCount(chain[first].value + 1)

\* rc.9 after another element becomes rc.10 with length 2
C23_Witness ==
  /\ last.op = "incrementModifier"
  /\ last.identifier = IdRC
  /\ last.modifiers = <<Modifier(Some(IdA), 1, 1), Modifier(Some(IdRC), 9, 1)>>
  /\ last.result = <<Modifier(Some(IdA), 1, 1), Modifier(Some(IdRC), 10, 2)>>

\* the chain the segments pair into, left to right; open is the identifier
\* of the modifier still open, if any; a segment is numeric when it holds
\* digits only
RECURSIVE PairSegments(_, _)
PairSegments(segments, open) ==
  IF segments = <<>>
  THEN (IF IsDefined(open) THEN <<Modifier(open, 0, 0)>> ELSE <<>>)
  ELSE IF IsAllDigits(Head(segments))
  THEN <<Modifier(open, ParseInt(Head(segments)), Len(Head(segments)))>>
         \o PairSegments(Tail(segments), Undefined)
  ELSE (IF IsDefined(open) THEN <<Modifier(open, 0, 0)>> ELSE <<>>)
         \o PairSegments(Tail(segments), Some(Head(segments)))

\* C24: getModifiers(text) splits text on '.' and pairs the segments left to
\* right: a non-numeric segment opens a modifier with that identifier, value
\* 0 and length 0 (emitting the one that was open); a numeric segment sets
\* value and length (its digit count, leading zeros counted) of the open
\* modifier and closes it, or becomes a modifier without identifier when
\* none is open; an identifier open at the end is emitted with value 0 and
\* length 0; absent or empty text gives the empty chain.
C24_GetModifiers ==
  last.op = "getModifiers" =>
    last.result =
      IF ~IsDefined(last.value) \/ Get(last.value) = <<>> THEN <<>>
      ELSE PairSegments(Split(Get(last.value), "."), Undefined)

\* the segment -1 after an open identifier closes it with value -1 and length 2
C24_Witness ==
  /\ last.op = "getModifiers"
  /\ last.value = Some(<<"a", ".", "-", "1">>)
  /\ last.result = <<Modifier(Some(IdA), -1, 2)>>

\* the rendering of one element as the claim gives it
RenderedElement(m) ==
  IF ~IsDefined(m.identifier) THEN NumberToString(m.value)
  ELSE IF m.length = 0 THEN Get(m.identifier)
  ELSE Get(m.identifier) \o <<".">> \o NumberToString(m.value)

\* every element from position i on, each after a dot
RECURSIVE DottedFrom(_, _)
DottedFrom(chain, i) ==
  IF i > Len(chain) THEN <<>>
  ELSE <<".">> \o RenderedElement(chain[i]) \o DottedFrom(chain, i + 1)

\* C25: modifiersToString(chain) is the empty string for the empty chain and
\* otherwise '-' followed by the elements joined with '.': an element with
\* an identifier is the identifier alone when its length is 0 and
\* identifier '.' value (a plain integer, no zero padding) otherwise; an
\* element without identifier is its value.
C25_ModifiersToString ==
  last.op = "modifiersToString" =>
    last.result =
      IF last.modifiers = <<>> THEN <<>>
      ELSE <<"-">> \o RenderedElement(last.modifiers[1]) \o DottedFrom(last.modifiers, 2)

\* a with value 2 and length 0, then a.01: rendered "-a.a.1"
C25_Witness ==
  /\ last.op = "modifiersToString"
  /\ last.modifiers = <<Modifier(Some(IdA), 2, 0), Modifier(Some(IdA), 1, 2)>>
  /\ last.result = <<"-", "a", ".", "a", ".", "1">>

\* C26: along any sequence of CalVer increments of any kind (CALENDAR,
\* MAJOR, MINOR, MICRO, MODIFIER) that do not fail, every version has the
\* prefix and the format of the first one.
C26_CalVerPrefixAndFormatKept ==
  \A type \in CalVerIncrementTypes :
    (CalVerIncremented(type) /\ ~last.throws) =>
      /\ ver = last.result
      /\ last.result.prefix = last.this.prefix
      /\ last.result.format = last.this.format

\* MINOR on a version with prefix v gives a version without prefix
C26_Witness ==
  /\ CalVerIncremented("MINOR") /\ ~last.throws
  /\ last.this.prefix = Some(<<"v">>)
  /\ last.result.prefix = Undefined
  /\ last.result.format = last.this.format
  /\ StartsWith(CalVer_toString(last.this), <<"v">>)
  /\ ~StartsWith(CalVer_toString(last.result), <<"v">>)

\* the version is what fromString gives for its own text
IsParsed(v) == CalVer_fromString(v.format, CalVer_toString(v), v.prefix) = Some(v)

\* the text of every calendar slot is the rendering of the clock value
\* under the slot's token
CalendarTextIsCurrent(v, clock) ==
  \A slot \in BoundSlots(v) :
    slot.token \in CalendarTokens =>
      formatVersionCore(slot.value, slot.token)
        = formatVersionCore(ClockValue(slot.token, clock), slot.token)

\* C27: for a CalVer parsed from text, increment(CALENDAR) treats the
\* calendar as unchanged whenever the text of every calendar slot is the
\* rendering of the current clock value under that slot's token: the MAJOR,
\* MINOR and MICRO slots and the modifiers are not reset (23.1 under
\* YY.MINOR in the year 2023 stays 23.1).
C27_ParsedCalendarUnchanged ==
  (/\ CalVerIncremented("CALENDAR")
   /\ IsParsed(last.this)
   /\ CalendarTextIsCurrent(last.this, last.clock))
    => /\ ~last.throws
       /\ \A slot \in BoundSlots(last.this) :
            slot.token \notin CalendarTokens => slot \in BoundSlots(last.result)
       /\ last.result.modifiers = last.this.modifiers
       /\ CalVer_toString(last.result) = CalVer_toString(last.this)

\* 23.1-build.1 under YY.MINOR, incremented in 2023, comes back as 23.0
C27_Witness ==
  /\ CalVerIncremented("CALENDAR")
  /\ IsParsed(last.this)
  /\ last.this.format.major = YY /\ last.this.format.minor = MINOR
  /\ last.this.major = 23 /\ last.this.minor = 1
  /\ last.this.modifiers = <<Modifier(Some(IdBuild), 1, 1)>>
  /\ last.clock.year = 2023
  /\ CalVer_toString(last.this) = <<"2", "3", ".", "1", "-", "b", "u", "i", "l", "d", ".", "1">>
  /\ CalVer_toString(last.result) = <<"2", "3", ".", "0">>

\* no calendar slot of the version is ahead of the clock
ClockIsNotBehind(v, clock) ==
  \A slot \in BoundSlots(v) :
    slot.token \in CalendarTokens => slot.value <= ClockValue(slot.token, clock)

\* C28: CalVer.increment(CALENDAR) never returns a version that compares
\* lower than its receiver when the clock is not behind the version: for
\* every format and every receiver whose calendar slots are each at most
\* the clock value, v.increment(CALENDAR).compareTo(v) is 0 or 1.
C28_CalendarNeverLower ==
  (CalVerIncremented("CALENDAR") /\ ClockIsNotBehind(last.this, last.clock))
    => /\ ~last.throws
       /\ CalVer_compareTo(last.result, last.this) \in {Return(0), Return(1)}

\* 1.14 under MINOR.WW, incremented in week 15, becomes 0.15
C28_Witness ==
  /\ CalVerIncremented("CALENDAR")
  /\ last.this.format.major = MINOR /\ last.this.format.minor = WW
  /\ last.this.major = 1 /\ last.this.minor = 14
  /\ getISO8601WeekNumber(last.clock) = 15
  /\ last.result.major = 0 /\ last.result.minor = 15
  /\ CalVer_compareTo(last.result, last.this) = Return(-1)

EqualTexts ==
  {core \o pre \o build :
     core \in {<<"1", ".", "0", ".", "0">>, <<"1", ".", "0", ".", "1">>,
               <<"0", "1", ".", "0", ".", "0">>},
     pre \in {<<>>, <<"-", "a">>, <<"-", "a", ".", "0">>, <<"-", "a", ".", "1">>,
              <<"-", "a", ".", "b">>, <<"-", "0">>, <<"-", "1">>, <<"-", "-", "0">>},
     build \in {<<>>, <<"+", "b", ".", "1">>, <<"+", "b", ".", "2">>}}

InitEqual ==
  /\ text \in EqualTexts \X EqualTexts
  /\ ver = NoVersion
  /\ now = 1
  /\ last = [op |-> "new"]
  /\ steps = 0

\* SemVer.fromString(s)?.isEqualTo(SemVer.fromString(t)) where both parse
SemVerIsEqualTo ==
  /\ last.op = "new"
  /\ LET this == SemVer_fromString(text[1], Undefined)
         other == SemVer_fromString(text[2], Undefined)
     IN last' = [op |-> "isEqualTo",
                 accepted |-> IsDefined(this) /\ IsDefined(other),
                 result |-> IF IsDefined(this) /\ IsDefined(other)
                            THEN SemVer_isEqualTo(Get(this), Get(other))
                            ELSE FALSE]
  /\ UNCHANGED <<ver, now, text, steps>>

SpecEqual == InitEqual /\ [][SemVerIsEqualTo]_vars

\* the text before its first '+'
RECURSIVE WithoutBuild(_)
WithoutBuild(s) ==
  IF s = <<>> \/ Head(s) = "+" THEN <<>> ELSE <<Head(s)>> \o WithoutBuild(Tail(s))

\* C30: for any two strings s and t that SemVer.fromString accepts,
\* fromString(s).isEqualTo(fromString(t)) holds only if s and t are the same
\* once their '+build' parts are removed (1.0.0-alpha and 1.0.0-alpha.0 are
\* not equal).
C30_EqualOnlyIfSameText ==
  (last.op = "isEqualTo" /\ last.accepted /\ last.result)
    => WithoutBuild(text[1]) = WithoutBuild(text[2])

\* 1.0.0-a and 1.0.0-a.0 are both accepted and compare equal
C30_Witness ==
  /\ last.op = "isEqualTo" /\ last.accepted /\ last.result
  /\ text[1] = <<"1", ".", "0", ".", "0", "-", "a">>
  /\ text[2] = <<"1", ".", "0", ".", "0", "-", "a", ".", "0">>

=============================================================================
